---- MODULE Spec2Model ----
(***************************************************************************)
(* Model of the ingestion stages of Concierge / servicios_sanitarios:      *)
(*   verificar_siss, monitorear_tarifas_vigentes   (change detection)      *)
(*   descargar_pdfs, analyze_pdfs                  (accumulation)          *)
(* as implemented in src/modules/servicios_sanitarios/src/core.py and      *)
(* utils.py.                                                               *)
(*                                                                         *)
(* Conventions                                                             *)
(*  - A JSON file on disk is a record with a field "exists"; load_json of  *)
(*    a missing file gives None, which is modelled as exists = FALSE.      *)
(*  - datetime.now() is the logical clock "now": one tick per stage call.  *)
(*  - The repository is half way through a Spanish -> English rename.      *)
(*    core.py imports cargar_json, guardar_json, verificar_redireccion_url,*)
(*    extraer_url_por_texto, extraer_empresas_agua and descargar_pdf while *)
(*    utils.py defines load_json, save_json, check_url_redirection,        *)
(*    extract_url_by_text, extract_water_companies and download_pdf (the   *)
(*    tests patch core.load_json, core.save_json, ...).  Function and      *)
(*    parameter identifiers are resolved to those definitions.  Dictionary *)
(*    keys are data that reach the disk and are modelled literally.        *)
(*  - The network and the PDF back ends are external: their results are    *)
(*    inputs of the actions.                                               *)
(***************************************************************************)
EXTENDS Integers, Sequences, FiniteSets, TLC

VARIABLES
    now,                 \* logical clock behind datetime.now()
    siss_file,           \* data/siss_url.json
    tarifas_file,        \* data/tarifas_empresas.json
    registro_descargas,  \* data/registro_descargas.json
    pdfs_disk,           \* the PDF files under data/pdfs
    registro_analisis,   \* data/registro_analisis.json
    stage,               \* the stage operation called last
    ret,                 \* the value that call returned
    io                   \* what that call did to its file (observation only)

files == <<siss_file, tarifas_file, registro_descargas, pdfs_disk, registro_analisis>>
vars == <<now, files, stage, ret, io>>

(***************************************************************************)
(* Bounds and input domains                                                *)
(***************************************************************************)
\* Stage calls per behaviour (the clock stops there).
MaxRuns == 3
\* The same for the specification of the tariff stage called without a URL.
MaxRunsViaSiss == 2
\* The same for the specification of the download and analysis stages.
MaxRunsPdfs == 4

None == "None"
url_siss == "https://www.siss.gob.cl"

\* Results of check_url_redirection: None on any request error.
UrlsFinal == {"siss/home-a", "siss/home-b"}
RedirectResults == {None} \cup UrlsFinal
\* Results of extract_url_by_text: None when the link is not found or on error.
UrlsTarifas == {"siss/tarifas-a", "siss/tarifas-b"}
LinkResults == {None} \cup UrlsTarifas

Empresas == {"Aguas Andinas", "Essbio"}
Localidades == {"Maipu", "Santiago"}
UrlsPdf == {"pdf/1", "pdf/2"}

\* The strings above in Python's (code point) order.
NameOrder == <<"Aguas Andinas", "Aguas_Andinas", "Essbio", "Maipu", "Santiago",
              "pdf/1", "pdf/2">>
OrdTable == [s \in {NameOrder[i] : i \in DOMAIN NameOrder} |->
                CHOOSE i \in DOMAIN NameOrder : NameOrder[i] = s]
Ord(s) == OrdTable[s]

Range(s) == {s[i] : i \in DOMAIN s}
\* Sequences over S of length 1 or 2, and of length 0, 1 or 2.
Seq1to2(S) == {<<a>> : a \in S} \cup {<<a, b>> : a \in S, b \in S}
Seq0to2(S) == {<<>>} \cup Seq1to2(S)

(***************************************************************************)
(* Files                                                                   *)
(***************************************************************************)
AbsentFile == [exists |-> FALSE]
\* An external call the stage did not make.
NotCalled == "not called"

\* A file that is there and cannot be read or is not JSON.
CorruptFile == [exists |-> TRUE, corrupt |-> TRUE]

\* Mutant: a registry without records counts as no registry.
Loaded_con_registros(file) ==
    /\ file.exists /\ "corrupt" \notin DOMAIN file
    /\ "pdfs_descargados" \in DOMAIN file => file.pdfs_descargados # <<>>

\* load_json(path) is not None, utils.py 159-182: None when the file is not
\* there, does not decode or cannot be read.
Loaded(file) == file.exists /\ "corrupt" \notin DOMAIN file

\* dict.get(key, default)
Get(d, key, default) == IF key \in DOMAIN d THEN d[key] ELSE default

\* Mutant: a write does not replace a file that does not load.
save_json_sin_ilegible(data, file, save_ok) ==
    IF save_ok /\ (Loaded(file) \/ ~file.exists) THEN data ELSE file

\* Mutant: a write never replaces a file that exists.
save_json_si_ausente(data, file, save_ok) == IF save_ok /\ ~Loaded(file) THEN data ELSE file

\* save_json(data, path), utils.py 135-156: True and the file holds data, or
\* False because mkdir or open raised, and the file is as before.  save_ok is
\* the outcome.  A write that breaks after open() has truncated the file (the
\* disk fills during json.dump) is outside this fault model.
save_json(data, file, save_ok) == IF save_ok THEN data ELSE file

(***************************************************************************)
(* verificar_siss                                                          *)
(***************************************************************************)
\* Mutant: the early return is missing.
SissFallo_nunca(url_final) == FALSE

\* core.py 212: the early return
SissFallo(url_final) == url_final = None

\* core.py 234-239
SissUrlFinalCambio(datos_previos, url_final) ==
    IF Loaded(datos_previos) THEN datos_previos.url_final # url_final ELSE FALSE

\* Mutant: the tariffs URL is compared with the stored final URL.
SissUrlTarifasCambio_otro_campo(datos_previos, url_tarifas) ==
    IF Loaded(datos_previos) THEN datos_previos.url_final # url_tarifas ELSE FALSE

SissUrlTarifasCambio(datos_previos, url_tarifas) ==
    IF Loaded(datos_previos) THEN datos_previos.url_tarifas_vigentes # url_tarifas ELSE FALSE

\* Mutant: the stage saves on every run.
SissHayCambios_siempre(is_first_time, url_final_cambio, url_tarifas_cambio) == TRUE

\* Mutant: the first run is not taken for a change.
SissHayCambios_sin_primera(is_first_time, url_final_cambio, url_tarifas_cambio) ==
    url_final_cambio \/ url_tarifas_cambio

\* core.py 241
SissHayCambios(is_first_time, url_final_cambio, url_tarifas_cambio) ==
    is_first_time \/ url_final_cambio \/ url_tarifas_cambio

\* Mutant: the history starts empty on every save.
SissHistorialPrevio_vacio(datos_previos) == <<>>

\* core.py 247-249: the history carried over
SissHistorialPrevio(datos_previos) ==
    IF Loaded(datos_previos) THEN datos_previos.historial ELSE <<>>

\* Mutant: the previous state is not appended.
SissHistorial_sin_entrada(datos_previos) == SissHistorialPrevio(datos_previos)

\* core.py 252-258: the history that is written
SissHistorial(datos_previos) ==
    IF Loaded(datos_previos)
    THEN Append(SissHistorialPrevio(datos_previos),
                [url_final            |-> datos_previos.url_final,
                 url_tarifas_vigentes |-> datos_previos.url_tarifas_vigentes,
                 timestamp            |-> datos_previos.timestamp])
    ELSE SissHistorialPrevio(datos_previos)

\* core.py 261-268
SissDatos(datos_previos, url_final, url_tarifas, ts) ==
    [exists               |-> TRUE,
     url_original         |-> url_siss,
     url_final            |-> url_final,
     url_tarifas_vigentes |-> url_tarifas,
     timestamp            |-> ts,
     verificado           |-> TRUE,
     historial            |-> SissHistorial(datos_previos)]

\* core.py 190-299.  The result is the returned dict, the file afterwards and
\* the I/O the call performed.
verificar_siss(file, url_final, url_tarifas, ts, save_ok) ==
    IF SissFallo(url_final)
    THEN [ret  |-> [success |-> FALSE, url_original |-> url_siss, url_final |-> None,
                    url_tarifas_vigentes |-> None, timestamp |-> ts,
                    error |-> "No se pudo obtener la URL de redireccion"],
          file |-> file,
          io   |-> [previo |-> file, loaded |-> FALSE, save_called |-> FALSE,
                    datos |-> AbsentFile,
                    extern |-> [url_final |-> url_final, url_tarifas |-> NotCalled]]]
    ELSE LET datos_previos      == file
             is_first_time      == ~Loaded(datos_previos)
             url_final_cambio   == SissUrlFinalCambio(datos_previos, url_final)
             url_tarifas_cambio == SissUrlTarifasCambio(datos_previos, url_tarifas)
             hay_cambios        == SissHayCambios(is_first_time, url_final_cambio,
                                                  url_tarifas_cambio)
             datos              == SissDatos(datos_previos, url_final, url_tarifas, ts)
             guardado           == hay_cambios /\ save_ok
         IN [ret  |-> [success |-> TRUE, url_original |-> url_siss, url_final |-> url_final,
                       url_tarifas_vigentes |-> url_tarifas, timestamp |-> ts,
                       guardado |-> guardado, is_first_time |-> is_first_time,
                       cambios |-> [url_final |-> url_final_cambio,
                                    url_tarifas_vigentes |-> url_tarifas_cambio],
                       message |-> IF is_first_time THEN "Primera verificacion guardada"
                                   ELSE IF hay_cambios THEN "Cambios detectados y guardados"
                                   ELSE "Sin cambios, no se guardo"],
             file |-> IF hay_cambios THEN save_json(datos, file, save_ok) ELSE file,
             io   |-> [previo |-> file, loaded |-> TRUE, save_called |-> hay_cambios,
                       datos |-> IF hay_cambios THEN datos ELSE AbsentFile,
                       extern |-> [url_final |-> url_final, url_tarifas |-> url_tarifas]]]

VerificarSiss ==
    \E url_final \in RedirectResults, url_tarifas \in LinkResults, save_ok \in BOOLEAN :
        /\ now < MaxRuns
        /\ LET r == verificar_siss(siss_file, url_final, url_tarifas, now, save_ok)
           IN /\ siss_file' = r.file
              /\ ret' = r.ret
              /\ io' = r.io
        /\ stage' = "verificar_siss"
        /\ now' = now + 1
        /\ UNCHANGED <<tarifas_file, registro_descargas, pdfs_disk, registro_analisis>>

(***************************************************************************)
(* monitorear_tarifas_vigentes                                             *)
(***************************************************************************)
\* Results of extract_water_companies: a list of {empresa, tarifas} dicts, each
\* with at least one {localidad, url_pdf} entry (utils.py 400: a company without
\* tariff data is not added); [] on any request error.  The page may list a
\* company heading twice and a table may repeat a row.
TarifaEntries == {[localidad |-> l, url_pdf |-> u] : l \in Localidades, u \in UrlsPdf}
EmpresasDe(nombres, entries) ==
    {[empresa |-> n, tarifas |-> t] : n \in nombres, t \in Seq1to2(entries)}

\* str(t) of a tariff dict: the keys are always written in the order localidad,
\* url_pdf, so the string is an injective, totally ordered code of the pair.
StrTarifa(t) == Ord(t.localidad) * (Len(NameOrder) + 1) + Ord(t.url_pdf)

RECURSIVE InsertInt(_, _)
InsertInt(x, s) ==
    IF s = <<>> THEN <<x>>
    ELSE IF x <= Head(s) THEN <<x>> \o s
    ELSE <<Head(s)>> \o InsertInt(x, Tail(s))

\* sorted(...) of a list of strings
RECURSIVE SortInts(_)
SortInts(s) == IF s = <<>> THEN <<>> ELSE InsertInt(Head(s), SortInts(Tail(s)))

\* Python's list comparison a <= b
RECURSIVE ListLeq(_, _)
ListLeq(a, b) ==
    IF a = <<>> THEN TRUE
    ELSE IF b = <<>> THEN FALSE
    ELSE IF Head(a) # Head(b) THEN Head(a) < Head(b)
    ELSE ListLeq(Tail(a), Tail(b))

\* Python's comparison of the tuples (empresa, [str, ...])
TupleLeq(a, b) == Ord(a[1]) < Ord(b[1]) \/ (a[1] = b[1] /\ ListLeq(a[2], b[2]))

RECURSIVE InsertTuple(_, _)
InsertTuple(x, s) ==
    IF s = <<>> THEN <<x>>
    ELSE IF TupleLeq(x, Head(s)) THEN <<x>> \o s
    ELSE <<Head(s)>> \o InsertTuple(x, Tail(s))

\* sorted(...) of the list of tuples
RECURSIVE SortTuples(_)
SortTuples(s) == IF s = <<>> THEN <<>> ELSE InsertTuple(Head(s), SortTuples(Tail(s)))

\* Mutant: the tariff strings of a company are not sorted.
EmpresaTuple_sin_orden(e) ==
    <<e.empresa, [i \in DOMAIN e.tarifas |-> StrTarifa(e.tarifas[i])]>>

\* core.py 379: (e["empresa"], sorted(str(t) for t in e["tarifas"]))
EmpresaTuple(e) ==
    <<e.empresa, SortInts([i \in DOMAIN e.tarifas |-> StrTarifa(e.tarifas[i])])>>

\* core.py 378-385: str(sorted([... for e in empresas])); str of a list of
\* tuples of strings is injective, so the sorted list stands for the string.
EmpresasStr(empresas) ==
    SortTuples([i \in DOMAIN empresas |-> EmpresaTuple(empresas[i])])

\* core.py 357: the early return
TarifasFallo(empresas) == empresas = <<>>

\* core.py 373-387
TarifasCambiosDetectados(datos_previos, empresas) ==
    IF Loaded(datos_previos)
    THEN EmpresasStr(empresas) # EmpresasStr(datos_previos.empresas)
    ELSE FALSE

\* The stage saves on every run.
TarifasHayCambios_siempre(is_first_time, cambios_detectados) == TRUE
\* core.py 389
TarifasHayCambios(is_first_time, cambios_detectados) == is_first_time \/ cambios_detectados

\* core.py 395-397: the history carried over
TarifasHistorialPrevio(datos_previos) ==
    IF Loaded(datos_previos) THEN datos_previos.historial ELSE <<>>

\* core.py 400-406: the history that is written
TarifasHistorial(datos_previos) ==
    IF Loaded(datos_previos)
    THEN Append(TarifasHistorialPrevio(datos_previos),
                [empresas        |-> datos_previos.empresas,
                 timestamp       |-> datos_previos.timestamp,
                 total_companies |-> datos_previos.total_companies])
    ELSE TarifasHistorialPrevio(datos_previos)

\* core.py 409-416
TarifasDatos(datos_previos, url_tarifas, empresas, ts) ==
    [exists          |-> TRUE,
     url_tarifas     |-> url_tarifas,
     empresas        |-> empresas,
     total_companies |-> Len(empresas),
     timestamp       |-> ts,
     verificado      |-> TRUE,
     historial       |-> TarifasHistorial(datos_previos)]

\* core.py 354-436: the part after the tariffs URL is known.
monitorear_con_url(file, url_tarifas, empresas, ts, save_ok) ==
    IF TarifasFallo(empresas)
    THEN [ret  |-> [success |-> FALSE, url_tarifas |-> url_tarifas, empresas |-> <<>>,
                    timestamp |-> ts,
                    error |-> "No se pudieron extraer datos de empresas"],
          file |-> file,
          io   |-> [previo |-> file, loaded |-> FALSE, save_called |-> FALSE,
                    datos |-> AbsentFile,
                    extern |-> [scraped |-> TRUE, empresas |-> empresas],
                    siss_calls |-> 0]]
    ELSE LET datos_previos      == file
             is_first_time      == ~Loaded(datos_previos)
             cambios_detectados == TarifasCambiosDetectados(datos_previos, empresas)
             hay_cambios        == TarifasHayCambios(is_first_time, cambios_detectados)
             datos              == TarifasDatos(datos_previos, url_tarifas, empresas, ts)
             guardado           == hay_cambios /\ save_ok
         IN [ret  |-> [success |-> TRUE, url_tarifas |-> url_tarifas, empresas |-> empresas,
                       total_companies |-> Len(empresas), timestamp |-> ts,
                       guardado |-> guardado, is_first_time |-> is_first_time,
                       cambios_detectados |-> cambios_detectados,
                       message |-> IF is_first_time THEN "Primera verificacion guardada"
                                   ELSE IF cambios_detectados
                                        THEN "Cambios detectados y guardados"
                                   ELSE "Sin cambios, no se guardo"],
             file |-> IF hay_cambios THEN save_json(datos, file, save_ok) ELSE file,
             io   |-> [previo |-> file, loaded |-> TRUE, save_called |-> hay_cambios,
                       datos |-> IF hay_cambios THEN datos ELSE AbsentFile,
                       extern |-> [scraped |-> TRUE, empresas |-> empresas],
                       siss_calls |-> 0]]

\* core.py 333-352: the tariffs URL was not given and verificar_siss answered
\* resultado_siss; the stage returns before it scrapes, loads or writes.
monitorear_sin_url(file, resultado_siss, ts) ==
    [ret  |-> [success |-> FALSE, url_tarifas |-> None, empresas |-> <<>>, timestamp |-> ts,
               error |-> IF ~resultado_siss.success
                         THEN "No se pudo obtener URL de tarifas vigentes"
                         ELSE "URL de tarifas vigentes no disponible"],
     file |-> file,
     io   |-> [previo |-> file, loaded |-> FALSE, save_called |-> FALSE,
               datos |-> AbsentFile, extern |-> [scraped |-> FALSE, empresas |-> <<>>],
               siss_calls |-> 1]]

\* The stage goes on only when the check failed.
TarifasSinUrl_solo_fallo(resultado_siss) == ~resultado_siss.success
\* core.py 335, 345: the redirect check failed or gave no tariffs link
TarifasSinUrl(resultado_siss) ==
    ~resultado_siss.success \/ resultado_siss.url_tarifas_vigentes = None

\* core.py 301-436 with url_tarifas given.
MonitorearTarifas(Scrapes) ==
    \E url_tarifas \in UrlsTarifas, empresas \in Scrapes, save_ok \in BOOLEAN :
        /\ now < MaxRuns
        /\ LET r == monitorear_con_url(tarifas_file, url_tarifas, empresas, now, save_ok)
           IN /\ tarifas_file' = r.file
              /\ ret' = r.ret
              /\ io' = [r.io EXCEPT !.siss_calls = 0]
        /\ stage' = "monitorear_tarifas_vigentes"
        /\ now' = now + 1
        /\ UNCHANGED <<siss_file, registro_descargas, pdfs_disk, registro_analisis>>

\* core.py 301-436 with url_tarifas=None: verificar_siss() runs first, against
\* its default file, and supplies the URL.
MonitorearTarifasViaSiss(Scrapes) ==
    \E url_final \in RedirectResults, link \in LinkResults, siss_ok \in BOOLEAN,
       empresas \in Scrapes, save_ok \in BOOLEAN :
        /\ now < MaxRunsViaSiss
        /\ LET s == verificar_siss(siss_file, url_final, link, now, siss_ok)
               r == IF TarifasSinUrl(s.ret)
                    THEN monitorear_sin_url(tarifas_file, s.ret, now)
                    ELSE monitorear_con_url(tarifas_file, s.ret.url_tarifas_vigentes,
                                            empresas, now, save_ok)
           IN /\ siss_file' = s.file
              /\ tarifas_file' = r.file
              /\ ret' = r.ret
              /\ io' = [r.io EXCEPT !.siss_calls = 1] @@ [resultado_siss |-> s.ret]
        /\ stage' = "monitorear_tarifas_vigentes"
        /\ now' = now + 1
        /\ UNCHANGED <<registro_descargas, pdfs_disk, registro_analisis>>

TwoEntries == {[localidad |-> "Maipu", url_pdf |-> "pdf/1"],
               [localidad |-> "Santiago", url_pdf |-> "pdf/2"]}

\* The scrapes of the protocol specification: nothing, or one company block
\* with one or two of two entries, in either order, or one entry twice.
ScrapesSpec == {<<>>} \cup {<<e>> : e \in EmpresasDe({"Essbio"}, TwoEntries)}

\* The scrapes of the equality specification: up to two company blocks of two
\* companies, each with one or two of two entries; blocks and entries may repeat.
ScrapesEq == Seq0to2(EmpresasDe(Empresas, TwoEntries))

Monitorear == MonitorearTarifas(ScrapesSpec)
\* One more call against a tariff file that exists.
MonitorearEq == stage = "none" /\ MonitorearTarifas(ScrapesEq)
MonitorearViaSiss == MonitorearTarifasViaSiss(ScrapesSpec)

Init ==
    /\ now = 0
    /\ siss_file = AbsentFile
    /\ tarifas_file = AbsentFile
    /\ registro_descargas = AbsentFile
    /\ pdfs_disk = {}
    /\ registro_analisis = AbsentFile
    /\ stage = "none"
    /\ ret = [success |-> FALSE]
    /\ io = [loaded |-> FALSE, save_called |-> FALSE]

\* A first run of monitorear_tarifas_vigentes has written the tariff file.
InitEq ==
    /\ now = 1
    /\ siss_file = AbsentFile
    /\ tarifas_file \in {TarifasDatos(AbsentFile, u, e, 0) :
                            u \in UrlsTarifas, e \in ScrapesEq \ {<<>>}}
    /\ registro_descargas = AbsentFile
    /\ pdfs_disk = {}
    /\ registro_analisis = AbsentFile
    /\ stage = "none"
    /\ ret = [success |-> FALSE]
    /\ io = [loaded |-> FALSE, save_called |-> FALSE]

\* The two change-detection stages, each called any number of times, one call
\* at a time.
Next == VerificarSiss \/ Monitorear

Spec == Init /\ [][Next]_vars

\* The tariff stage as the pipeline calls it, without a URL.
NextViaSiss == MonitorearViaSiss

SpecViaSiss == Init /\ [][NextViaSiss]_vars

(***************************************************************************)
(* The change-detection stages with the steps of save_json told apart:     *)
(* the write of utils.py 146-153 creates the directory, opens the file     *)
(* with mode 'w', which empties it, and then dumps the data; an exception  *)
(* at any of these steps is caught and gives False (154-156).              *)
(***************************************************************************)
MaxRunsEscritura == 3
\* How a call of save_json ends: the data are written; mkdir or open raised;
\* json.dump raised after open had emptied the file (the disk is full).
Escrituras == {"ok", "sin_abrir", "truncado"}
\* utils.py 146-156: the file after the call.  What is left by a dump that
\* broke is a prefix of a JSON object, which load_json does not decode.
save_json_pasos(data, file, escritura) ==
    IF escritura = "ok" THEN data ELSE IF escritura = "sin_abrir" THEN file ELSE CorruptFile

\* verificar_siss, core.py 190-299, with the write in steps.
VerificarSissEscritura ==
    \E url_final \in RedirectResults, url_tarifas \in LinkResults, escritura \in Escrituras :
        /\ now < MaxRunsEscritura
        /\ LET r == verificar_siss(siss_file, url_final, url_tarifas, now, escritura = "ok")
           IN /\ siss_file' = IF r.io.save_called
                               THEN save_json_pasos(r.io.datos, siss_file, escritura)
                               ELSE siss_file
              /\ ret' = r.ret
              /\ io' = r.io @@ [escritura |-> escritura]
        /\ stage' = "verificar_siss"
        /\ now' = now + 1
        /\ UNCHANGED <<tarifas_file, registro_descargas, pdfs_disk, registro_analisis>>

\* monitorear_tarifas_vigentes, core.py 301-436, with the write in steps.
MonitorearEscritura ==
    \E url_tarifas \in UrlsTarifas, empresas \in ScrapesSpec, escritura \in Escrituras :
        /\ now < MaxRunsEscritura
        /\ LET r == monitorear_con_url(tarifas_file, url_tarifas, empresas, now,
                                       escritura = "ok")
           IN /\ tarifas_file' = IF r.io.save_called
                                  THEN save_json_pasos(r.io.datos, tarifas_file, escritura)
                                  ELSE tarifas_file
              /\ ret' = r.ret
              /\ io' = r.io @@ [escritura |-> escritura]
        /\ stage' = "monitorear_tarifas_vigentes"
        /\ now' = now + 1
        /\ UNCHANGED <<siss_file, registro_descargas, pdfs_disk, registro_analisis>>

NextEscritura == VerificarSissEscritura \/ MonitorearEscritura

SpecEscritura == Init /\ [][NextEscritura]_vars

\* One call of the tariff stage against every tariff file a first run can write.
NextEq == MonitorearEq

SpecEq == InitEq /\ [][NextEq]_vars

(***************************************************************************)
(* descargar_pdfs                                                          *)
(***************************************************************************)
pdfs_path == "data/pdfs"

\* core.py 510, 522: name.replace(" ", "_").replace("/", "_") on the names of
\* the model; "Aguas Andinas" is the one name with a character to replace.
Normalizado(name) == IF name = "Aguas Andinas" THEN "Aguas_Andinas" ELSE name

\* core.py 524: Path(pdfs_path) / empresa_dir / f"{localidad_file}.pdf"
RutaPdf(empresa_dir, localidad_file) ==
    pdfs_path \o "/" \o empresa_dir \o "/" \o localidad_file \o ".pdf"

\* The parts of the paths above: Path(p).parent.name, Path(p).name, and the
\* file name without ".pdf".
Carpetas == {Normalizado(n) : n \in Empresas}
Archivos == {Normalizado(n) : n \in Localidades}
PathTable ==
    [p \in {RutaPdf(d, f) : d \in Carpetas, f \in Archivos} |->
        CHOOSE x \in [folder : Carpetas, stem : Archivos] : RutaPdf(x.folder, x.stem) = p]
PathParts(p) == PathTable[p]
ParentName(p) == PathParts(p).folder
PathStem(p) == PathParts(p).stem
PathName(p) == PathStem(p) \o ".pdf"

\* Results of download_pdf (utils.py 421-474): the file is written and True is
\* returned; the request fails, nothing is written and False is returned; the
\* file is opened and left empty (empty body, or the transfer breaks) and
\* False is returned.
DownloadResults == {"ok", "error", "vacio"}
DownloadWrites(r) == r \in {"ok", "vacio"}

\* core.py 507-515: the tariff entries in the order of the two loops
RECURSIVE DescargaEntradas(_)
DescargaEntradas(empresas) ==
    IF empresas = <<>> THEN <<>>
    ELSE LET e == Head(empresas)
         IN [i \in DOMAIN e.tarifas |->
                [empresa   |-> e.empresa,
                 localidad |-> e.tarifas[i].localidad,
                 url_pdf   |-> e.tarifas[i].url_pdf]]
            \o DescargaEntradas(Tail(empresas))

\* Mutant: the URLs of the registry are not collected.
DescargaPrevios_vacio(registro_previo) == {}
\* core.py 497-500: the URLs the registry records
DescargaPrevios(registro_previo) ==
    IF Loaded(registro_previo)
    THEN {registro_previo.pdfs_descargados[i].url_pdf :
            i \in DOMAIN registro_previo.pdfs_descargados}
    ELSE {}

\* Mutant: no entry is skipped.
DescargaSaltar_nunca(is_first_time, pdfs_previos, url_pdf) == FALSE

\* core.py 518: the entry is skipped
DescargaSaltar(is_first_time, pdfs_previos, url_pdf) ==
    ~is_first_time /\ url_pdf \in pdfs_previos

\* The entries for which download_pdf is called, in order.
DescargaIntentos(entradas, is_first_time, pdfs_previos) ==
    SelectSeq(entradas, LAMBDA e : ~DescargaSaltar(is_first_time, pdfs_previos, e.url_pdf))

\* core.py 520-541 for the attempted entries; resultados[i] is what
\* download_pdf did for the i-th of them.
RECURSIVE DescargaBucle(_, _, _)
DescargaBucle(intentos, resultados, ts) ==
    IF intentos = <<>>
    THEN [pdfs_descargados |-> <<>>, failed_pdfs |-> <<>>, escritos |-> {}]
    ELSE LET e        == Head(intentos)
             r        == Head(resultados)
             ruta_pdf == RutaPdf(Normalizado(e.empresa), Normalizado(e.localidad))
             resto    == DescargaBucle(Tail(intentos), Tail(resultados), ts)
         IN [pdfs_descargados |->
                IF r = "ok"
                THEN <<[empresa |-> e.empresa, localidad |-> e.localidad,
                        url_pdf |-> e.url_pdf, ruta_local |-> ruta_pdf,
                        timestamp |-> ts]>> \o resto.pdfs_descargados
                ELSE resto.pdfs_descargados,
             failed_pdfs |->
                IF r = "ok" THEN resto.failed_pdfs
                ELSE <<[empresa |-> e.empresa, localidad |-> e.localidad,
                        url_pdf |-> e.url_pdf, error |-> "Fallo en descarga"]>>
                     \o resto.failed_pdfs,
             escritos |->
                IF DownloadWrites(r) THEN {ruta_pdf} \cup resto.escritos
                ELSE resto.escritos]

\* Mutant: the run history is restarted at every run.
DescargaRegistro_historial_nuevo(registro_previo, is_first_time, pdfs_descargados, failed_pdfs, ts) ==
    LET totales == (IF ~is_first_time /\ Loaded(registro_previo)
                    THEN registro_previo.pdfs_descargados ELSE <<>>)
                   \o pdfs_descargados
    IN [exists                 |-> TRUE,
        ultima_actualizacion   |-> ts,
        total_pdfs_descargados |-> Len(totales),
        pdfs_descargados       |-> totales,
        historial_descargas    |->
            <<[timestamp |-> ts, descargados |-> Len(pdfs_descargados),
               failed |-> Len(failed_pdfs), is_first_time |-> is_first_time]>>]

\* Mutant: the failed downloads are recorded with the successful ones.
DescargaRegistro_con_fallos(registro_previo, is_first_time, pdfs_descargados, failed_pdfs, ts) ==
    LET totales == (IF ~is_first_time /\ Loaded(registro_previo)
                    THEN registro_previo.pdfs_descargados ELSE <<>>)
                   \o pdfs_descargados \o failed_pdfs
    IN [exists                 |-> TRUE,
        ultima_actualizacion   |-> ts,
        total_pdfs_descargados |-> Len(totales),
        pdfs_descargados       |-> totales,
        historial_descargas    |->
            (IF is_first_time THEN <<>> ELSE registro_previo.historial_descargas) \o
            <<[timestamp |-> ts, descargados |-> Len(pdfs_descargados),
               failed |-> Len(failed_pdfs), is_first_time |-> is_first_time]>>]

\* Mutant: the registry is rebuilt from this run's downloads alone.
DescargaRegistro_sin_previos(registro_previo, is_first_time, pdfs_descargados, failed_pdfs, ts) ==
    [exists                 |-> TRUE,
     ultima_actualizacion   |-> ts,
     total_pdfs_descargados |-> Len(pdfs_descargados),
     pdfs_descargados       |-> pdfs_descargados,
     historial_descargas    |->
        (IF is_first_time THEN <<>> ELSE registro_previo.historial_descargas) \o
        <<[timestamp |-> ts, descargados |-> Len(pdfs_descargados),
           failed |-> Len(failed_pdfs), is_first_time |-> is_first_time]>>]

\* core.py 544-570
DescargaRegistro(registro_previo, is_first_time, pdfs_descargados, failed_pdfs, ts) ==
    LET pdfs_totales_descargados ==
            (IF ~is_first_time /\ Loaded(registro_previo)
             THEN registro_previo.pdfs_descargados ELSE <<>>) \o pdfs_descargados
        entrada == [timestamp     |-> ts,
                    descargados   |-> Len(pdfs_descargados),
                    failed        |-> Len(failed_pdfs),
                    is_first_time |-> is_first_time]
    IN [exists                 |-> TRUE,
        ultima_actualizacion   |-> ts,
        total_pdfs_descargados |-> Len(pdfs_totales_descargados),
        pdfs_descargados       |-> pdfs_totales_descargados,
        historial_descargas    |->
            IF is_first_time THEN <<entrada>>
            ELSE Append(registro_previo.historial_descargas, entrada)]

\* The failure return after a run entry was written to the registry.
DescargaError_con_historial(json, registro, disk, ts, error) ==
    [ret      |-> [success |-> FALSE, error |-> error, timestamp |-> ts],
     registro |-> DescargaRegistro(registro, ~Loaded(registro), <<>>, <<>>, ts),
     disk     |-> disk,
     io       |-> [json |-> json, previo |-> registro, loaded |-> TRUE,
                   intentos |-> <<>>, resultados |-> <<>>,
                   save_called |-> TRUE, datos |-> AbsentFile]]
\* The failure returns of descargar_pdfs: nothing but the tariff JSON is read.
DescargaError(json, registro, disk, ts, error) ==
    [ret      |-> [success |-> FALSE, error |-> error, timestamp |-> ts],
     registro |-> registro,
     disk     |-> disk,
     io       |-> [json |-> json, previo |-> registro, loaded |-> FALSE,
                   intentos |-> <<>>, resultados |-> <<>>,
                   save_called |-> FALSE, datos |-> AbsentFile]]

\* core.py 438-591.  resultados[i] is the result of the i-th call of download_pdf.
descargar_pdfs(json, registro, disk, resultados, ts, save_ok) ==
    IF ~Loaded(json)
    THEN DescargaError(json, registro, disk, ts, "No se pudo cargar el archivo JSON")
    ELSE IF Get(json, "empresas", <<>>) = <<>>
    THEN DescargaError(json, registro, disk, ts,
                       "No se encontraron empresas en el archivo JSON")
    ELSE LET registro_previo == registro
             is_first_time   == ~Loaded(registro_previo)
             pdfs_previos    == DescargaPrevios(registro_previo)
             entradas        == DescargaEntradas(json.empresas)
             intentos        == DescargaIntentos(entradas, is_first_time, pdfs_previos)
             bucle           == DescargaBucle(intentos, resultados, ts)
             datos           == DescargaRegistro(registro_previo, is_first_time,
                                                 bucle.pdfs_descargados,
                                                 bucle.failed_pdfs, ts)
         IN [ret |-> [success          |-> TRUE,
                      total_pdfs       |-> Len(entradas),
                      descargados      |-> Len(bucle.pdfs_descargados),
                      failed           |-> Len(bucle.failed_pdfs),
                      is_first_time    |-> is_first_time,
                      pdfs_descargados |-> bucle.pdfs_descargados,
                      failed_pdfs      |-> bucle.failed_pdfs,
                      registry_saved   |-> save_ok,
                      timestamp        |-> ts,
                      message |->
                          IF is_first_time THEN "Primera descarga"
                          ELSE IF Len(bucle.pdfs_descargados) > 0
                               THEN "Descargados PDFs nuevos"
                          ELSE "No hay PDFs nuevos para descargar"],
             registro |-> save_json(datos, registro, save_ok),
             disk     |-> disk \cup bucle.escritos,
             io       |-> [json |-> json, previo |-> registro, loaded |-> TRUE,
                           intentos |-> intentos, resultados |-> resultados,
                           save_called |-> TRUE, datos |-> datos]]

\* The number of calls of download_pdf a run against these files makes.
DescargaLlamadas(json, registro) ==
    IF ~Loaded(json) THEN 0
    ELSE Len(DescargaIntentos(DescargaEntradas(Get(json, "empresas", <<>>)), ~Loaded(registro),
                              DescargaPrevios(registro)))

DescargarPdfs ==
    \E resultados \in [1..DescargaLlamadas(tarifas_file, registro_descargas) ->
                          DownloadResults],
       save_ok \in BOOLEAN :
        /\ now < MaxRunsPdfs
        /\ LET r == descargar_pdfs(tarifas_file, registro_descargas, pdfs_disk,
                                   resultados, now, save_ok)
           IN /\ registro_descargas' = r.registro
              /\ pdfs_disk' = r.disk
              /\ ret' = r.ret
              /\ io' = r.io
        /\ stage' = "descargar_pdfs"
        /\ now' = now + 1
        /\ UNCHANGED <<siss_file, tarifas_file, registro_analisis>>

(***************************************************************************)
(* analyze_pdfs                                                            *)
(***************************************************************************)
\* sorted(pdfs): paths compare part by part
PathLeq(a, b) ==
    \/ Ord(ParentName(a)) < Ord(ParentName(b))
    \/ ParentName(a) = ParentName(b) /\ Ord(PathStem(a)) <= Ord(PathStem(b))

\* utils.py 800-826: the PDFs under the folder, sorted
RECURSIVE get_pdfs_in_folder(_)
get_pdfs_in_folder(disk) ==
    IF disk = {} THEN <<>>
    ELSE LET first == CHOOSE p \in disk : \A q \in disk : PathLeq(p, q)
         IN <<first>> \o get_pdfs_in_folder(disk \ {first})

\* utils.py 958-960: the set of analysed paths
NewPdfsAnalyzed(registry) ==
    LET lista == Get(registry, "analyzed_pdfs", <<>>)
    IN {Get(lista[i], "pdf_path", None) : i \in DOMAIN lista}

\* utils.py 930-969
get_new_pdfs(disk, registry) ==
    LET all_pdfs == get_pdfs_in_folder(disk)
    IN IF ~Loaded(registry) THEN all_pdfs
       ELSE LET analyzed_pdfs == NewPdfsAnalyzed(registry)
            IN SelectSeq(all_pdfs, LAMBDA pdf : pdf \notin analyzed_pdfs)

\* What a PDF file holds, as far as the extractors can tell: a text layer of
\* 50 characters or more and no table; text and a table; page images only; or
\* nothing readable (an empty or broken file).
ClasesPdf == {"texto", "tabla", "escaneado", "vacio"}

NoResult == [ok |-> FALSE]
Truthy(r) == r.ok

\* utils.py 754-797; ocr_ok: pytesseract, pdf2image and tesseract are there.
extract_pdf_text_with_ocr(clase, ocr_ok) ==
    IF ocr_ok /\ clase # "vacio" THEN [ok |-> TRUE, text |-> "ocr"] ELSE NoResult

\* utils.py 622-657
extract_pdf_text(clase, use_ocr, ocr_ok) ==
    CASE clase \in {"texto", "tabla"} -> [ok |-> TRUE, text |-> "pypdf"]
      [] clase = "escaneado" ->
            IF use_ocr THEN extract_pdf_text_with_ocr(clase, ocr_ok) ELSE NoResult
      [] OTHER -> NoResult

\* utils.py 660-751.  With a non-empty table, result['total_tablas'] (line 722)
\* raises KeyError, which line 749 turns into None; without text the result is
\* None (line 743).  The dict that is returned has the keys text, tables,
\* total_pages and total_tables.
extract_pdf_tables(clase) ==
    IF clase = "texto"
    THEN [ok |-> TRUE, text |-> "pdfplumber", tables |-> <<>>,
          total_pages |-> 1, total_tables |-> 0]
    ELSE NoResult

\* core.py 738-749, 767-778: the record of an analysed PDF (the size and the
\* text of the file are not modelled).
AnalisisRegistro(ruta_pdf, metodo_extraccion, used_ocr, ts) ==
    [ruta_pdf            |-> ruta_pdf,
     filename            |-> PathName(ruta_pdf),
     folder              |-> ParentName(ruta_pdf),
     full_text_available |-> TRUE,
     metodo_extraccion   |-> metodo_extraccion,
     used_ocr            |-> used_ocr,
     timestamp           |-> ts]

AnalisisFallo(ruta_pdf, error) ==
    [ruta_pdf |-> ruta_pdf, filename |-> PathName(ruta_pdf), error |-> error]

\* core.py 669-671: extraction_result is truthy and extraction_result["texto"]
\* raises KeyError, which analyze_pdfs does not catch.
AnalisisKeyError(clase, extract_tables) ==
    extract_tables /\ Truthy(extract_pdf_tables(clase)) /\
    "texto" \notin DOMAIN extract_pdf_tables(clase)

\* core.py 659-784 for one PDF that does not raise: [ok, item]
AnalisisDe(ruta_pdf, clase, use_ocr, extract_tables, ocr_ok, ts) ==
    IF extract_tables
    THEN IF use_ocr
         THEN IF Truthy(extract_pdf_text_with_ocr(clase, ocr_ok))
              THEN [ok |-> TRUE,
                    item |-> AnalisisRegistro(ruta_pdf, "OCR (pytesseract)", TRUE, ts)]
              ELSE [ok |-> FALSE,
                    item |-> AnalisisFallo(ruta_pdf,
                        "No se pudo extraer texto (ni con pdfplumber ni con OCR)")]
         ELSE [ok |-> FALSE,
               item |-> AnalisisFallo(ruta_pdf, "No se pudo extraer texto con pdfplumber")]
    ELSE IF Truthy(extract_pdf_text(clase, use_ocr, ocr_ok))
         THEN [ok |-> TRUE,
               item |-> AnalisisRegistro(ruta_pdf, "pypdf (sin deteccion de tablas)",
                                         use_ocr, ts)]
         ELSE [ok |-> FALSE, item |-> AnalisisFallo(ruta_pdf, "No se pudo extraer texto")]

\* core.py 659-784: the loop
RECURSIVE AnalisisBucle(_, _, _, _, _, _)
AnalisisBucle(pdfs, clases, use_ocr, extract_tables, ocr_ok, ts) ==
    IF pdfs = <<>> THEN [analyzed_pdfs |-> <<>>, failed_pdfs |-> <<>>]
    ELSE LET a     == AnalisisDe(Head(pdfs), clases[Head(pdfs)], use_ocr,
                                 extract_tables, ocr_ok, ts)
             resto == AnalisisBucle(Tail(pdfs), clases, use_ocr, extract_tables,
                                    ocr_ok, ts)
         IN [analyzed_pdfs |-> IF a.ok THEN <<a.item>> \o resto.analyzed_pdfs
                               ELSE resto.analyzed_pdfs,
             failed_pdfs   |-> IF a.ok THEN resto.failed_pdfs
                               ELSE <<a.item>> \o resto.failed_pdfs]

\* utils.py 882, 895: name.replace("_", " ") on the names of the model.
Legible(name) ==
    IF name = "Aguas_Andinas" THEN "Aguas Andinas"
    ELSE IF name = "San_Felipe" THEN "San Felipe"
    ELSE IF name = "Sin_Empresa" THEN "Sin Empresa"
    ELSE name
\* utils.py 877: filename.replace(".pdf", "").replace(".PDF", "") removes every
\* occurrence of the two strings; a name that holds neither is unchanged.
SinPdfTable == [n \in {s \o ".pdf" : s \in Archivos} |->
                    CHOOSE s \in Archivos : s \o ".pdf" = n]
SinPdf(filename) ==
    IF filename \in DOMAIN SinPdfTable THEN SinPdfTable[filename]
    ELSE IF filename \in {"Maipu.PDF", "Maipu.pdf.pdf"} THEN "Maipu"
    ELSE IF filename = "San_Felipe.pdf" THEN "San_Felipe"
    ELSE filename

\* utils.py 906-922: the entry of one record; the keys are read as written there.
JerarquiaPdf(pdf_data) ==
    [pdf_file  |-> Get(pdf_data, "filename", ""),
     full_path |-> Get(pdf_data, "pdf_path", ""),
     analysis  |-> [extraction_method |-> Get(pdf_data, "extraction_method", ""),
                    used_ocr          |-> Get(pdf_data, "used_ocr", FALSE),
                    timestamp         |-> Get(pdf_data, "timestamp", "")]]

\* utils.py 862-869: the structure before the loop
JerarquiaVacia ==
    [companies |-> <<>>,
     summary |-> [total_companies |-> 0, total_localities |-> 0, total_pdfs |-> 0]]

\* utils.py 879-890: the company entry is created if it does not exist.
JerarquiaEmpresa(structure, company) ==
    IF company \in DOMAIN structure.companies THEN structure
    ELSE [structure EXCEPT
            !.companies = (company :> [company_name     |-> Legible(company),
                                       normalized_name  |-> company,
                                       localities       |-> <<>>,
                                       total_localities |-> 0,
                                       total_pdfs       |-> 0]) @@ @,
            !.summary.total_companies = @ + 1]

\* Mutant: a new locality is not counted in the summary.
JerarquiaLocalidad_sin_resumen(structure, company, locality) ==
    IF locality \in DOMAIN structure.companies[company].localities THEN structure
    ELSE [structure EXCEPT
            !.companies[company].localities =
                (locality :> [locality_name   |-> Legible(locality),
                              normalized_name |-> locality,
                              pdfs            |-> <<>>]) @@ @,
            !.companies[company].total_localities = @ + 1]
\* utils.py 892-903: the locality entry is created if it does not exist.
JerarquiaLocalidad(structure, company, locality) ==
    IF locality \in DOMAIN structure.companies[company].localities THEN structure
    ELSE [structure EXCEPT
            !.companies[company].localities =
                (locality :> [locality_name   |-> Legible(locality),
                              normalized_name |-> locality,
                              pdfs            |-> <<>>]) @@ @,
            !.companies[company].total_localities = @ + 1,
            !.summary.total_localities = @ + 1]

\* Mutant: the entry of a record replaces those of its locality.
JerarquiaEntrada_reemplaza(structure, company, locality, entrada) ==
    [structure EXCEPT
        !.companies[company].localities[locality].pdfs = <<entrada>>,
        !.companies[company].total_pdfs = @ + 1,
        !.summary.total_pdfs = @ + 1]
\* utils.py 905-925: the entry is appended and the two counters incremented.
JerarquiaEntrada(structure, company, locality, entrada) ==
    [structure EXCEPT
        !.companies[company].localities[locality].pdfs = Append(@, entrada),
        !.companies[company].total_pdfs = @ + 1,
        !.summary.total_pdfs = @ + 1]

\* utils.py 871-925: the body of the loop for one record.
JerarquiaAgrega(structure, pdf_data) ==
    LET company  == Get(pdf_data, "folder", "Sin_Empresa")
        filename == Get(pdf_data, "filename", "")
        locality == SinPdf(filename)
    IN JerarquiaEntrada(
           JerarquiaLocalidad(JerarquiaEmpresa(structure, company), company, locality),
           company, locality, JerarquiaPdf(pdf_data))

\* utils.py 829-927: companies -> localities -> pdfs, with the counts
RECURSIVE JerarquiaBucle(_, _)
JerarquiaBucle(structure, analyzed_pdfs) ==
    IF analyzed_pdfs = <<>> THEN structure
    ELSE JerarquiaBucle(JerarquiaAgrega(structure, Head(analyzed_pdfs)),
                        Tail(analyzed_pdfs))
organize_hierarchical_analysis(analyzed_pdfs) ==
    JerarquiaBucle(JerarquiaVacia, analyzed_pdfs)

\* The view rebuilt from the records of this run alone.
AnalisisRegistroNuevo_solo_ultima(registro_previo, is_first_time, analyzed_pdfs, failed_pdfs, use_ocr, extract_tables, only_new, ts) ==
    LET total_analyzed_pdfs ==
            (IF ~is_first_time /\ Loaded(registro_previo)
             THEN Get(registro_previo, "analyzed_pdfs", <<>>) ELSE <<>>) \o analyzed_pdfs
        entrada == [timestamp      |-> ts,
                    analyzed       |-> Len(analyzed_pdfs),
                    failed         |-> Len(failed_pdfs),
                    is_first_time  |-> is_first_time,
                    used_ocr       |-> use_ocr,
                    extract_tables |-> extract_tables]
    IN [exists                 |-> TRUE,
        ultima_actualizacion   |-> ts,
        total_analyzed_pdfs    |-> Len(total_analyzed_pdfs),
        hierarchical_structure |-> organize_hierarchical_analysis(analyzed_pdfs),
        configuration          |-> [use_ocr |-> use_ocr, extract_tables |-> extract_tables,
                                    only_new |-> only_new],
        analysis_history       |->
            IF is_first_time THEN <<entrada>>
            ELSE Append(Get(registro_previo, "analysis_history", <<>>), entrada),
        analyzed_pdfs          |-> total_analyzed_pdfs]
\* core.py 787-827
AnalisisRegistroNuevo(registro_previo, is_first_time, analyzed_pdfs, failed_pdfs, use_ocr, extract_tables, only_new, ts) ==
    LET total_analyzed_pdfs ==
            (IF ~is_first_time /\ Loaded(registro_previo)
             THEN Get(registro_previo, "analyzed_pdfs", <<>>) ELSE <<>>) \o analyzed_pdfs
        entrada == [timestamp      |-> ts,
                    analyzed       |-> Len(analyzed_pdfs),
                    failed         |-> Len(failed_pdfs),
                    is_first_time  |-> is_first_time,
                    used_ocr       |-> use_ocr,
                    extract_tables |-> extract_tables]
    IN [exists                 |-> TRUE,
        ultima_actualizacion   |-> ts,
        total_analyzed_pdfs    |-> Len(total_analyzed_pdfs),
        hierarchical_structure |-> organize_hierarchical_analysis(total_analyzed_pdfs),
        configuration          |-> [use_ocr |-> use_ocr, extract_tables |-> extract_tables,
                                    only_new |-> only_new],
        analysis_history       |->
            IF is_first_time THEN <<entrada>>
            ELSE Append(Get(registro_previo, "analysis_history", <<>>), entrada),
        analyzed_pdfs          |-> total_analyzed_pdfs]

\* core.py 593-851.  clases[p] is what the file p holds at this call.
analyze_pdfs(disk, registro, clases, use_ocr, extract_tables, only_new, ocr_ok, ts, save_ok) ==
    LET pdfs_to_analyze == IF only_new THEN get_new_pdfs(disk, registro)
                           ELSE get_pdfs_in_folder(disk)
        obs == [previo |-> registro, disk |-> disk, only_new |-> only_new,
                pdfs_to_analyze |-> pdfs_to_analyze]
    IN IF pdfs_to_analyze = <<>>
       THEN [ret |-> [success |-> TRUE, total_pdfs |-> 0, analyzed |-> 0, failed |-> 0,
                      is_first_time |-> FALSE, analyzed_pdfs |-> <<>>,
                      failed_pdfs |-> <<>>, timestamp |-> ts,
                      message |-> "No hay PDFs para analizar"],
             registro |-> registro,
             io |-> obs @@
                    [loaded |-> FALSE, save_called |-> FALSE, datos |-> AbsentFile]]
       ELSE IF \E i \in DOMAIN pdfs_to_analyze :
                    AnalisisKeyError(clases[pdfs_to_analyze[i]], extract_tables)
       THEN [ret |-> [raised |-> "KeyError"],
             registro |-> registro,
             io |-> obs @@ [loaded |-> TRUE, save_called |-> FALSE, datos |-> AbsentFile]]
       ELSE LET registro_previo == registro
                is_first_time   == ~Loaded(registro_previo)
                bucle == AnalisisBucle(pdfs_to_analyze, clases, use_ocr, extract_tables,
                                       ocr_ok, ts)
                datos == AnalisisRegistroNuevo(registro_previo, is_first_time,
                                               bucle.analyzed_pdfs, bucle.failed_pdfs,
                                               use_ocr, extract_tables, only_new, ts)
            IN [ret |-> [success        |-> TRUE,
                         total_pdfs     |-> Len(pdfs_to_analyze),
                         analyzed       |-> Len(bucle.analyzed_pdfs),
                         failed         |-> Len(bucle.failed_pdfs),
                         is_first_time  |-> is_first_time,
                         analyzed_pdfs  |-> bucle.analyzed_pdfs,
                         failed_pdfs    |-> bucle.failed_pdfs,
                         hierarchical_structure |-> datos.hierarchical_structure,
                         registry_saved |-> save_ok,
                         used_ocr       |-> use_ocr,
                         extract_tables |-> extract_tables,
                         timestamp      |-> ts,
                         message |->
                             IF is_first_time THEN "Primer analisis"
                             ELSE IF Len(bucle.analyzed_pdfs) > 0
                                  THEN "Analizados PDFs nuevos"
                             ELSE "No hay PDFs nuevos para analizar"],
                registro |-> save_json(datos, registro, save_ok),
                io |-> obs @@ [loaded |-> TRUE, save_called |-> TRUE, datos |-> datos]]

\* The arguments of a call and the state of the OCR back end; without use_ocr
\* the back end is not called.
AnalisisConfigs ==
    {c \in [use_ocr : BOOLEAN, extract_tables : BOOLEAN, only_new : BOOLEAN,
            ocr_ok : BOOLEAN] : ~c.use_ocr => c.ocr_ok}

\* core.py 593-851, called with one of the given configurations on files of
\* the given classes.
AnalyzePdfsCon(Configs, Clases) ==
    \E clases \in [pdfs_disk -> Clases], c \in Configs, save_ok \in BOOLEAN :
        /\ now < MaxRunsPdfs
        /\ LET r == analyze_pdfs(pdfs_disk, registro_analisis, clases, c.use_ocr,
                                 c.extract_tables, c.only_new, c.ocr_ok, now, save_ok)
           IN /\ registro_analisis' = r.registro
              /\ ret' = r.ret
              /\ io' = r.io
        /\ stage' = "analyze_pdfs"
        /\ now' = now + 1
        /\ UNCHANGED <<siss_file, tarifas_file, registro_descargas, pdfs_disk>>

AnalyzePdfs == AnalyzePdfsCon(AnalisisConfigs, ClasesPdf)

\* The calls of the accumulation specification: only_new=True, either pypdf
\* alone or pdfplumber backed by OCR, on files with text, with text and a
\* table, or unreadable.
AcumulaConfigs ==
    {[use_ocr |-> FALSE, extract_tables |-> FALSE, only_new |-> TRUE, ocr_ok |-> TRUE],
     [use_ocr |-> TRUE, extract_tables |-> TRUE, only_new |-> TRUE, ocr_ok |-> TRUE]}
AnalyzeAcumula == AnalyzePdfsCon(AcumulaConfigs, {"texto", "tabla", "vacio"})

\* The scrapes of the PDF specification: one company block with one entry, with
\* a second entry added, or with two entries that share a URL.
ScrapesPdfs ==
    {<<[empresa |-> "Aguas Andinas", tarifas |-> t]>> :
        t \in {<<[localidad |-> "Maipu", url_pdf |-> "pdf/1"]>>,
               <<[localidad |-> "Maipu", url_pdf |-> "pdf/1"],
                 [localidad |-> "Santiago", url_pdf |-> "pdf/2"]>>,
               <<[localidad |-> "Maipu", url_pdf |-> "pdf/1"],
                 [localidad |-> "Santiago", url_pdf |-> "pdf/1"]>>}}

\* The tariff stage of the PDF specification, with its own clock bound.
MonitorearPdfs ==
    \E empresas \in ScrapesPdfs, save_ok \in BOOLEAN :
        /\ now < MaxRunsPdfs
        /\ LET r == monitorear_con_url(tarifas_file, "siss/tarifas-a", empresas, now,
                                       save_ok)
           IN /\ tarifas_file' = r.file
              /\ ret' = r.ret
              /\ io' = r.io
        /\ stage' = "monitorear_tarifas_vigentes"
        /\ now' = now + 1
        /\ UNCHANGED <<siss_file, registro_descargas, pdfs_disk, registro_analisis>>

\* The tariff stage and the download stage, in any order, any number of times.
NextDescarga == MonitorearPdfs \/ DescargarPdfs

SpecDescarga == Init /\ [][NextDescarga]_vars

\* Stage calls per behaviour of the specification below.
MaxRunsEntrada == 3

\* What data/tarifas_empresas.json may hold when the download stage reads it:
\* nothing (no file), something that does not load, a dict with an empty
\* company list or without one, or what the tariff stage wrote.
JsonsTarifas ==
    {AbsentFile, CorruptFile,
     [exists |-> TRUE, url_tarifas |-> "siss/tarifas-a", empresas |-> <<>>],
     [exists |-> TRUE, url_tarifas |-> "siss/tarifas-a"]}
    \cup {TarifasDatos(AbsentFile, "siss/tarifas-a", e, 0) : e \in ScrapesPdfs}

\* Between two calls the tariff JSON is replaced (by hand or by a tool).
JsonCambia ==
    \E json \in JsonsTarifas \ {tarifas_file} :
        /\ stage = "descargar_pdfs"
        /\ now < MaxRunsEntrada
        /\ tarifas_file' = json
        /\ stage' = "none"
        /\ UNCHANGED <<now, siss_file, registro_descargas, pdfs_disk, registro_analisis,
                       ret, io>>

\* core.py 438-591, as many calls as the clock allows.
DescargarEntrada == now < MaxRunsEntrada /\ DescargarPdfs

\* The download stage finds any tariff JSON.
InitEntrada ==
    /\ now = 0
    /\ siss_file = AbsentFile
    /\ tarifas_file \in JsonsTarifas
    /\ registro_descargas = AbsentFile
    /\ pdfs_disk = {}
    /\ registro_analisis = AbsentFile
    /\ stage = "none"
    /\ ret = [success |-> FALSE]
    /\ io = [loaded |-> FALSE, save_called |-> FALSE]

NextEntrada == JsonCambia \/ DescargarEntrada

SpecEntrada == InitEntrada /\ [][NextEntrada]_vars

\* A first run of monitorear_tarifas_vigentes has written the tariff file.
InitAnalisis ==
    /\ now = 1
    /\ siss_file = AbsentFile
    /\ tarifas_file \in {TarifasDatos(AbsentFile, "siss/tarifas-a", e, 0) :
                            e \in ScrapesPdfs}
    /\ registro_descargas = AbsentFile
    /\ pdfs_disk = {}
    /\ registro_analisis = AbsentFile
    /\ stage = "none"
    /\ ret = [success |-> FALSE]
    /\ io = [loaded |-> FALSE, save_called |-> FALSE]

\* The download stage and the analysis stage, in any order, any number of times.
NextAnalisis == DescargarPdfs \/ AnalyzePdfs

SpecAnalisis == InitAnalisis /\ [][NextAnalisis]_vars

\* The two accumulation stages with the calls above.
NextAcumula == DescargarPdfs \/ AnalyzeAcumula

SpecAcumula == InitAnalisis /\ [][NextAcumula]_vars

\* Stage calls per behaviour of the specification below.
MaxRunsIlegible == 3

\* The analysis called with extract_tables=False and use_ocr=False: pypdf
\* alone, on files with and without a text layer.
IlegibleConfigs ==
    {[use_ocr |-> FALSE, extract_tables |-> FALSE, only_new |-> TRUE, ocr_ok |-> TRUE]}

\* A state or registry file that a stage wrote stops being readable: its
\* bytes no longer decode, or open() raises on it; load_json gives None for it
\* (utils.py 177-182).  One file at a time is in that state.
Ilegible ==
    /\ CorruptFile \notin {siss_file, tarifas_file, registro_descargas, registro_analisis}
    /\ \/ Loaded(siss_file) /\ siss_file' = CorruptFile
          /\ UNCHANGED <<tarifas_file, registro_descargas, registro_analisis>>
       \/ Loaded(tarifas_file) /\ tarifas_file' = CorruptFile
          /\ UNCHANGED <<siss_file, registro_descargas, registro_analisis>>
       \/ Loaded(registro_descargas) /\ registro_descargas' = CorruptFile
          /\ UNCHANGED <<siss_file, tarifas_file, registro_analisis>>
       \/ Loaded(registro_analisis) /\ registro_analisis' = CorruptFile
          /\ UNCHANGED <<siss_file, tarifas_file, registro_descargas>>
    /\ stage' = "none"
    /\ UNCHANGED <<now, pdfs_disk, ret, io>>

\* The four stages, each against whatever its file holds.
VerificarIlegible == now < MaxRunsIlegible /\ VerificarSiss
MonitorearIlegible == now < MaxRunsIlegible /\ MonitorearPdfs
DescargarIlegible == now < MaxRunsIlegible /\ DescargarPdfs
AnalyzeIlegible == now < MaxRunsIlegible /\ AnalyzePdfsCon(IlegibleConfigs, {"texto", "vacio"})

NextIlegible ==
    Ilegible \/ VerificarIlegible \/ MonitorearIlegible \/ DescargarIlegible
    \/ AnalyzeIlegible

\* A first run of the four stages, at time 0, has written every file: the
\* redirect check, the tariff stage, the download of every listed PDF and the
\* analysis of every downloaded file.
InitIlegible ==
    \E e \in ScrapesPdfs :
        LET tarifas == TarifasDatos(AbsentFile, "siss/tarifas-a", e, 0)
            d == descargar_pdfs(tarifas, AbsentFile, {},
                                [i \in 1..DescargaLlamadas(tarifas, AbsentFile) |-> "ok"],
                                0, TRUE)
            a == analyze_pdfs(d.disk, AbsentFile, [p \in d.disk |-> "texto"],
                              FALSE, FALSE, TRUE, TRUE, 0, TRUE)
        IN /\ now = 1
           /\ siss_file = verificar_siss(AbsentFile, "siss/home-a", "siss/tarifas-a",
                                         0, TRUE).file
           /\ tarifas_file = tarifas
           /\ registro_descargas = d.registro
           /\ pdfs_disk = d.disk
           /\ registro_analisis = a.registro
           /\ stage = "none"
           /\ ret = [success |-> FALSE]
           /\ io = [loaded |-> FALSE, save_called |-> FALSE]

SpecIlegible == InitIlegible /\ [][NextIlegible]_vars

\* Stage calls per behaviour of the specification below.
MaxRunsPrimera == 4

\* The four stages from the first call on, each against the file it keeps.
VerificarPrimera == now < MaxRunsPrimera /\ VerificarSiss
MonitorearPrimera == now < MaxRunsPrimera /\ MonitorearPdfs
DescargarPrimera == now < MaxRunsPrimera /\ DescargarPdfs
AnalyzePrimera == now < MaxRunsPrimera /\ AnalyzePdfsCon(IlegibleConfigs, {"texto", "vacio"})

NextPrimera == VerificarPrimera \/ MonitorearPrimera \/ DescargarPrimera \/ AnalyzePrimera

SpecPrimera == InitAnalisis /\ [][NextPrimera]_vars

\* Stage calls per behaviour of the specification below.
MaxRunsExtractor == 3

\* The calls with extract_tables=True: with and without use_ocr, and with the
\* OCR back end there or not.
ExtractorConfigs ==
    {c \in AnalisisConfigs : c.extract_tables /\ c.only_new}

\* core.py 593-851 called with extract_tables=True; the arguments and what
\* the files hold are kept in io.
AnalyzeExtractor ==
    \E clases \in [pdfs_disk -> ClasesPdf], c \in ExtractorConfigs, save_ok \in BOOLEAN :
        /\ now < MaxRunsExtractor
        /\ LET r == analyze_pdfs(pdfs_disk, registro_analisis, clases, c.use_ocr,
                                 c.extract_tables, c.only_new, c.ocr_ok, now, save_ok)
           IN /\ registro_analisis' = r.registro
              /\ ret' = r.ret
              /\ io' = r.io @@ [clases |-> clases, use_ocr |-> c.use_ocr,
                                ocr_ok |-> c.ocr_ok]
        /\ stage' = "analyze_pdfs"
        /\ now' = now + 1
        /\ UNCHANGED <<siss_file, tarifas_file, registro_descargas, pdfs_disk>>

DescargarExtractor == now < MaxRunsExtractor /\ DescargarPdfs

NextExtractor == DescargarExtractor \/ AnalyzeExtractor

SpecExtractor == InitAnalisis /\ [][NextExtractor]_vars

(***************************************************************************)
(* run_service.py: main                                                    *)
(***************************************************************************)
\* main calls the four stage operations one after another on one thread, each
\* call returning before the next statement runs; stage is the call that
\* returned last and so the position of main, "exit" once main has ended.
\* The clock value up to which an invocation of main may start.
MaxMainNow == 5

\* What the collaborators return to an invocation of main: the redirect fails
\* or gives one URL, the link is missing or found, the scrape gives [] or one
\* company with one entry, a download writes the file or fails, and a PDF has
\* text, text and a table, or nothing readable.
MainRedirects == {None, "siss/home-a"}
MainLinks == {None, "siss/tarifas-a"}
MainScrapes ==
    {<<>>, <<[empresa |-> "Aguas Andinas",
              tarifas |-> <<[localidad |-> "Maipu", url_pdf |-> "pdf/1"]>>]>>}
MainDownloads == {"ok", "error"}
MainClases == {"texto", "tabla", "vacio"}

\* run_service.py 96: the first statement that calls a stage.
MainPuedeVerificar == stage \in {"none", "exit"}
\* run_service.py 98-103, 127: the scrape follows a successful redirect check.
MainPuedeMonitorear == stage = "verificar_siss" /\ ret.success
\* Mutant: the download also follows a failed scrape.
MainPuedeDescargar_tras_fallo == stage = "monitorear_tarifas_vigentes"
\* run_service.py 131-136, 166: the download follows a successful scrape.
MainPuedeDescargar == stage = "monitorear_tarifas_vigentes" /\ ret.success
\* Mutant: the analysis may start without the download stage having run.
MainPuedeAnalizar_sin_descarga == stage \in {"monitorear_tarifas_vigentes", "descargar_pdfs"}
\* run_service.py 172-176, 208: the analysis follows the download, failed or not.
MainPuedeAnalizar == stage = "descargar_pdfs"
\* run_service.py 103, 136: "Abortando ejecución...", return 1.
MainAborta ==
    stage \in {"verificar_siss", "monitorear_tarifas_vigentes"} /\ ~ret.success
\* run_service.py 295 (return 0), 310-321 (an exception is printed).
MainTermina == stage = "analyze_pdfs"

\* run_service.py 96
MainVerificarSiss ==
    \E url_final \in MainRedirects, url_tarifas \in MainLinks, save_ok \in BOOLEAN :
        /\ MainPuedeVerificar
        /\ now < MaxMainNow
        /\ LET r == verificar_siss(siss_file, url_final, url_tarifas, now, save_ok)
           IN /\ siss_file' = r.file
              /\ ret' = r.ret
              /\ io' = r.io
        /\ stage' = "verificar_siss"
        /\ now' = now + 1
        /\ UNCHANGED <<tarifas_file, registro_descargas, pdfs_disk, registro_analisis>>

\* run_service.py 127-129: no url_tarifas is passed, so the stage calls
\* verificar_siss itself.
MainMonitorear ==
    \E url_final \in MainRedirects, link \in MainLinks, siss_ok \in BOOLEAN,
       empresas \in MainScrapes, save_ok \in BOOLEAN :
        /\ MainPuedeMonitorear
        /\ LET s == verificar_siss(siss_file, url_final, link, now, siss_ok)
               r == IF TarifasSinUrl(s.ret)
                    THEN monitorear_sin_url(tarifas_file, s.ret, now)
                    ELSE monitorear_con_url(tarifas_file, s.ret.url_tarifas_vigentes,
                                            empresas, now, save_ok)
           IN /\ siss_file' = s.file
              /\ tarifas_file' = r.file
              /\ ret' = r.ret
              /\ io' = [r.io EXCEPT !.siss_calls = 1]
        /\ stage' = "monitorear_tarifas_vigentes"
        /\ now' = now + 1
        /\ UNCHANGED <<registro_descargas, pdfs_disk, registro_analisis>>

\* run_service.py 166-170
MainDescargar ==
    \E resultados \in [1..DescargaLlamadas(tarifas_file, registro_descargas) ->
                          MainDownloads],
       save_ok \in BOOLEAN :
        /\ MainPuedeDescargar
        /\ LET r == descargar_pdfs(tarifas_file, registro_descargas, pdfs_disk,
                                   resultados, now, save_ok)
           IN /\ registro_descargas' = r.registro
              /\ pdfs_disk' = r.disk
              /\ ret' = r.ret
              /\ io' = r.io
        /\ stage' = "descargar_pdfs"
        /\ now' = now + 1
        /\ UNCHANGED <<siss_file, tarifas_file, registro_analisis>>

\* run_service.py 208-214: use_ocr=False, extract_tables=True, only_new=True.
MainAnalizar ==
    \E clases \in [pdfs_disk -> MainClases], save_ok \in BOOLEAN :
        /\ MainPuedeAnalizar
        /\ LET r == analyze_pdfs(pdfs_disk, registro_analisis, clases, FALSE, TRUE,
                                 TRUE, TRUE, now, save_ok)
           IN /\ registro_analisis' = r.registro
              /\ ret' = r.ret
              /\ io' = r.io
        /\ stage' = "analyze_pdfs"
        /\ now' = now + 1
        /\ UNCHANGED <<siss_file, tarifas_file, registro_descargas, pdfs_disk>>

\* run_service.py 103, 136, 295, 298-321: main ends; the exit code is 1 after
\* an abort and 0 otherwise (the handler of line 310 sets no exit code).
MainExit ==
    /\ MainAborta \/ MainTermina
    /\ stage' = "exit"
    /\ ret' = [exit_code |-> IF MainAborta THEN 1 ELSE 0, last |-> stage]
    /\ UNCHANGED <<now, siss_file, tarifas_file, registro_descargas, pdfs_disk,
                   registro_analisis, io>>

\* Invocations of main, one after another.
NextMain ==
    \/ MainVerificarSiss
    \/ MainMonitorear
    \/ MainDescargar
    \/ MainAnalizar
    \/ MainExit

SpecMain == Init /\ [][NextMain]_vars

(***************************************************************************)
(* Two runs of one stage that overlap                                      *)
(***************************************************************************)
\* A stage reads its state file with load_json and replaces it with save_json
\* at its end, with no lock and no check in between (core.py 226-271, 492-572).
\* Two processes A and B each run a stage in two steps, the load and the rest
\* of the call; io[r] holds the locals of the run of r and ret[r] what the run
\* returned.  cargado and escrito are the clock values of the two steps.
RaceRuns == {"A", "B"}
RaceStages == {"verificar_siss", "descargar_pdfs"}
\* The clock value up to which a run may start.
MaxRaceNow == 6

RaceFile(s) == IF s = "verificar_siss" THEN siss_file ELSE registro_descargas

\* core.py 190-226, 438-492: the run starts and loads the state file (and, for
\* the download, the tariff JSON).
RaceLoad(r) ==
    \E s \in RaceStages :
        /\ io[r].pc \in {"idle", "done"}
        /\ now < MaxRaceNow
        /\ io' = [io EXCEPT ![r] = [pc |-> "loaded", stage |-> s, cargado |-> now,
                                     previo |-> RaceFile(s), json |-> tarifas_file]]
        /\ ret' = [ret EXCEPT ![r] = [pending |-> TRUE]]
        /\ stage' = s
        /\ now' = now + 1
        /\ UNCHANGED files

\* core.py 229-299: verificar_siss compares with what it loaded and writes.
RaceWriteSiss(r) ==
    \E url_final \in MainRedirects, url_tarifas \in MainLinks, save_ok \in BOOLEAN :
        /\ io[r].pc = "loaded" /\ io[r].stage = "verificar_siss"
        /\ LET c == verificar_siss(io[r].previo, url_final, url_tarifas, io[r].cargado,
                                   save_ok)
           IN /\ siss_file' = IF c.io.save_called
                               THEN save_json(c.io.datos, siss_file, save_ok)
                               ELSE siss_file
              /\ ret' = [ret EXCEPT ![r] = c.ret]
              /\ io' = [io EXCEPT ![r] = [pc |-> "done", stage |-> io[r].stage,
                                           cargado |-> io[r].cargado, escrito |-> now,
                                           previo |-> io[r].previo, datos |-> c.io.datos,
                                           guardado |-> c.io.save_called /\ save_ok]]
        /\ stage' = "verificar_siss"
        /\ now' = now + 1
        /\ UNCHANGED <<tarifas_file, registro_descargas, pdfs_disk, registro_analisis>>

\* core.py 494-591: descargar_pdfs downloads what its loaded registry lacks and
\* writes the registry built from it.
RaceWriteDescarga(r) ==
    /\ io[r].pc = "loaded" /\ io[r].stage = "descargar_pdfs"
    /\ \E resultados \in [1..DescargaLlamadas(io[r].json, io[r].previo) -> MainDownloads],
          save_ok \in BOOLEAN :
          LET c == descargar_pdfs(io[r].json, io[r].previo, pdfs_disk, resultados,
                                  io[r].cargado, save_ok)
          IN /\ registro_descargas' = IF c.io.save_called
                                       THEN save_json(c.io.datos, registro_descargas,
                                                      save_ok)
                                       ELSE registro_descargas
             /\ pdfs_disk' = c.disk
             /\ ret' = [ret EXCEPT ![r] = c.ret]
             /\ io' = [io EXCEPT ![r] = [pc |-> "done", stage |-> io[r].stage,
                                          cargado |-> io[r].cargado, escrito |-> now,
                                          previo |-> io[r].previo, datos |-> c.io.datos,
                                          guardado |-> c.io.save_called /\ save_ok]]
    /\ stage' = "descargar_pdfs"
    /\ now' = now + 1
    /\ UNCHANGED <<siss_file, tarifas_file, registro_analisis>>

InitRace ==
    /\ now = 1
    /\ siss_file = AbsentFile
    /\ tarifas_file \in {TarifasDatos(AbsentFile, "siss/tarifas-a", e, 0) :
                            e \in ScrapesPdfs}
    /\ registro_descargas = AbsentFile
    /\ pdfs_disk = {}
    /\ registro_analisis = AbsentFile
    /\ stage = "none"
    /\ ret = [r \in RaceRuns |-> [pending |-> FALSE]]
    /\ io = [r \in RaceRuns |-> [pc |-> "idle"]]

NextRace == \E r \in RaceRuns : RaceLoad(r) \/ RaceWriteSiss(r) \/ RaceWriteDescarga(r)

SpecRace == InitRace /\ [][NextRace]_vars

(***************************************************************************)
(* parse_table_structure                                                   *)
(***************************************************************************)
\* The cells pdfplumber hands over: None, or a string that may be blank or
\* carry spaces around its text.
Cells == {None, " ", "Cargo fijo", " Valor ", "$1,500"}
\* str.strip() on those strings.
Strip(s) == IF s = " " THEN "" ELSE IF s = " Valor " THEN "Valor" ELSE s
\* utils.py 519: str(cell).strip() if cell else ""
CleanCell(cell) == IF cell = None \/ cell = "" THEN "" ELSE Strip(cell)
\* utils.py 594-619 on the cleaned cells: only the price matches a pattern.
contains_number_or_price(text) == text \in {"$1,500"}

\* The rows of the parsed tables: every row of up to two cells, and rows of
\* three cells with two values, a multi-column header, a gap and no content.
TableRows ==
    {<<>>} \cup {<<a>> : a \in Cells} \cup {<<a, b>> : a, b \in Cells}
    \cup {<<"Cargo fijo", " Valor ", "$1,500">>, <<"Cargo fijo", " Valor ", " Valor ">>,
          <<"Cargo fijo", None, "$1,500">>, <<None, " ", None>>}
\* The number of rows of a table.
MaxTableRows == 3

\* " - ".join(cells)
RECURSIVE Join(_)
Join(cells) ==
    IF Len(cells) = 1 THEN cells[1] ELSE cells[1] \o " - " \o Join(Tail(cells))

\* Mutant: a header row is counted as a concept too.
ParseCuenta_con_encabezados(total_concepts, es_par) == total_concepts + 1
\* utils.py 563: total_concepts += 1, in the branch of a concept-value pair.
ParseCuenta(total_concepts, es_par) ==
    IF es_par THEN total_concepts + 1 ELSE total_concepts

\* utils.py 586
ParseType(sections, direct_data) ==
    IF sections # <<>> THEN "with_sections" ELSE "simple"

\* Mutant: an open section is dropped when the next header arrives.
ParseNuevaSeccion_descarta(st, section_name) ==
    [st EXCEPT !.current_section = <<[section_name |-> section_name, data |-> <<>>]>>,
               !.total_concepts = ParseCuenta(st.total_concepts, FALSE)]
\* utils.py 531-540, 568-574: the open section, if any, is appended to sections
\* and a new one with no data is opened.  current_section is <<>> for None.
ParseNuevaSeccion(st, section_name) ==
    [st EXCEPT !.sections = st.sections \o st.current_section,
               !.current_section = <<[section_name |-> section_name, data |-> <<>>]>>,
               !.total_concepts = ParseCuenta(st.total_concepts, FALSE)]

\* Mutant: only a row with a value-like cell is a pair.
ParseEsPar_solo_valor(values) ==
    \E i \in DOMAIN values : contains_number_or_price(values[i])
\* utils.py 546-552: es_dato_valor or len(values) == 1
ParseEsPar(values) ==
    LET es_dato_valor == \E i \in DOMAIN values : contains_number_or_price(values[i])
    IN es_dato_valor \/ Len(values) = 1

\* utils.py 554-558
ParsePar(concept, values) ==
    [concept |-> concept,
     value |-> IF Len(values) = 1 THEN values[1] ELSE values,
     additional_values |-> IF Len(values) > 1 THEN Tail(values) ELSE <<>>]

\* Mutant: a pair always goes to direct_data.
ParseAgrega_directo(st, par_datos) ==
    [st EXCEPT !.direct_data = Append(st.direct_data, par_datos),
               !.total_concepts = ParseCuenta(st.total_concepts, TRUE)]
\* utils.py 560-565: the pair goes to the open section, or to direct_data.
ParseAgrega(st, par_datos) ==
    IF st.current_section # <<>>
    THEN [st EXCEPT
            !.current_section =
                <<[section_name |-> st.current_section[1].section_name,
                   data |-> Append(st.current_section[1].data, par_datos)]>>,
            !.total_concepts = ParseCuenta(st.total_concepts, TRUE)]
    ELSE [st EXCEPT !.direct_data = Append(st.direct_data, par_datos),
                    !.total_concepts = ParseCuenta(st.total_concepts, TRUE)]

\* utils.py 517-579: the body of the loop for one row.  st holds the locals
\* sections, direct_data, current_section (<<>> for None) and total_concepts.
ParseFila(st, row) ==
    LET cells == [i \in DOMAIN row |-> CleanCell(row[i])]
        non_empty_cells == SelectSeq(cells, LAMBDA c : c # "")
    IN IF non_empty_cells = <<>> THEN st
       ELSE IF Len(non_empty_cells) = 1 THEN ParseNuevaSeccion(st, non_empty_cells[1])
       ELSE LET concept == non_empty_cells[1]
                values  == Tail(non_empty_cells)
            IN IF ParseEsPar(values)
               THEN ParseAgrega(st, ParsePar(concept, values))
               ELSE ParseNuevaSeccion(st, Join(non_empty_cells))

\* The return without the section that is open at the end.
ParseReturn_sin_ultima(st) ==
    IF st.table = <<>>
    THEN [type |-> "empty", sections |-> <<>>, direct_data |-> <<>>, total_rows |-> 0,
          total_concepts |-> 0]
    ELSE [type           |-> ParseType(st.sections, st.direct_data),
          sections       |-> st.sections,
          direct_data    |-> st.direct_data,
          total_rows     |-> Len(st.table),
          total_concepts |-> st.total_concepts]
\* utils.py 504-511, 581-591: what is returned once the rows are consumed.
ParseReturn(st) ==
    IF st.table = <<>>
    THEN [type |-> "empty", sections |-> <<>>, direct_data |-> <<>>, total_rows |-> 0,
          total_concepts |-> 0]
    ELSE LET sections == st.sections \o st.current_section
         IN [type           |-> ParseType(sections, st.direct_data),
             sections       |-> sections,
             direct_data    |-> st.direct_data,
             total_rows     |-> Len(st.table),
             total_concepts |-> st.total_concepts]

\* utils.py 513-516: the locals at the start of a call.
ParseLocals ==
    [pc |-> "loop", table |-> <<>>, sections |-> <<>>, direct_data |-> <<>>,
     current_section |-> <<>>, total_concepts |-> 0]

\* The loop takes the next row of the table.
ParseRow ==
    \E row \in TableRows :
        /\ io.pc = "loop"
        /\ Len(io.table) < MaxTableRows
        /\ io' = [ParseFila(io, row) EXCEPT !.table = Append(io.table, row)]
        /\ stage' = "parse_table_structure"
        /\ UNCHANGED <<now, files, ret>>

\* The table has no further row: the function returns.
ParseEnd ==
    /\ io.pc = "loop"
    /\ ret' = ParseReturn(io)
    /\ io' = [io EXCEPT !.pc = "done"]
    /\ stage' = "parse_table_structure"
    /\ UNCHANGED <<now, files>>

\* A call of parse_table_structure on some table of TableRows.
InitParse ==
    /\ now = 0
    /\ siss_file = AbsentFile
    /\ tarifas_file = AbsentFile
    /\ registro_descargas = AbsentFile
    /\ pdfs_disk = {}
    /\ registro_analisis = AbsentFile
    /\ stage = "none"
    /\ ret = [success |-> FALSE]
    /\ io = ParseLocals

NextParse == ParseRow \/ ParseEnd

SpecParse == InitParse /\ [][NextParse]_vars

(***************************************************************************)
(* organize_hierarchical_analysis, record by record                        *)
(***************************************************************************)
\* The number of records of an input list.
MaxRegistros == 3

\* The records of the input lists: a folder of Carpetas and a file name that
\* ends in .pdf or .PDF, once with ".pdf" twice and once with an underscore;
\* a record without folder and one without file name.  The timestamp tells
\* the records of one list apart.
RegistrosJerarquia(ts) ==
    {[folder |-> c, filename |-> f, timestamp |-> ts] :
        c \in Carpetas,
        f \in {"Santiago.pdf", "Maipu.pdf", "Maipu.PDF", "Maipu.pdf.pdf",
               "San_Felipe.pdf"}}
    \cup {[filename |-> "Maipu.pdf", timestamp |-> ts],
          [folder |-> "Essbio", timestamp |-> ts]}

\* utils.py 871: the loop takes the next record of the list.
JerarquiaRow ==
    \E pdf_data \in RegistrosJerarquia(Len(io.analyzed_pdfs) + 1) :
        /\ io.pc = "loop"
        /\ Len(io.analyzed_pdfs) < MaxRegistros
        /\ io' = [io EXCEPT !.analyzed_pdfs = Append(@, pdf_data),
                            !.structure = JerarquiaAgrega(@, pdf_data)]
        /\ stage' = "organize_hierarchical_analysis"
        /\ UNCHANGED <<now, files, ret>>

\* utils.py 927: return structure
JerarquiaEnd ==
    /\ io.pc = "loop"
    /\ ret' = io.structure
    /\ io' = [io EXCEPT !.pc = "done"]
    /\ stage' = "organize_hierarchical_analysis"
    /\ UNCHANGED <<now, files>>

\* A call of organize_hierarchical_analysis on some list of records.
InitJerarquia ==
    /\ now = 0
    /\ siss_file = AbsentFile
    /\ tarifas_file = AbsentFile
    /\ registro_descargas = AbsentFile
    /\ pdfs_disk = {}
    /\ registro_analisis = AbsentFile
    /\ stage = "none"
    /\ ret = [success |-> FALSE]
    /\ io = [pc |-> "loop", analyzed_pdfs |-> <<>>, structure |-> JerarquiaVacia]

NextJerarquia == JerarquiaRow \/ JerarquiaEnd

SpecJerarquia == InitJerarquia /\ [][NextJerarquia]_vars

(***************************************************************************)
(* extract_pdf_tables, page by page and table by table                     *)
(***************************************************************************)
\* The number of pages of a document and of tables of a page.
MaxPaginas == 2
MaxTablasPagina == 2

\* What pdfplumber gives for a page: extract_text() is "" or a text,
\* extract_tables() a list of tables, each a list of rows, possibly empty.
TablaLlena == <<<<"Agua", "100">>>>
TablasDePagina ==
    UNION {[1..n -> {<<>>, TablaLlena}] : n \in 0..MaxTablasPagina}
PaginasPdf == [text : {"", "Agua potable"}, tables : TablasDePagina]
DocumentosPdf ==
    {[exists |-> FALSE, pages |-> <<>>]}
    \cup {[exists |-> TRUE, pages |-> ps] :
            ps \in UNION {[1..n -> PaginasPdf] : n \in 0..MaxPaginas}}

\* utils.py 691-704, 706.  NoResult stands for the None of a return.
TablasAbrir ==
    /\ stage = "none"
    /\ stage' = "extract_pdf_tables"
    /\ IF ~io.pdf.exists
       THEN /\ ret' = NoResult
            /\ io' = [io EXCEPT !.pc = "done"]
       ELSE /\ io' = [io EXCEPT
                       !.pc = IF io.pdf.pages = <<>> THEN "return" ELSE "page",
                       !.page_num = 1,
                       !.result = [text |-> <<>>, tables |-> <<>>,
                                   total_pages |-> Len(io.pdf.pages),
                                   total_tables |-> 0]]
            /\ UNCHANGED ret
    /\ UNCHANGED <<now, files>>

\* utils.py 708-714, 716: the marker and the text of the page are added to
\* result["text"] when the page has text.  The text is the list of its parts.
TablasTexto ==
    /\ stage = "extract_pdf_tables" /\ io.pc = "page"
    /\ LET page_text == io.pdf.pages[io.page_num].text
       IN io' = [io EXCEPT
                   !.pc = "tables",
                   !.table_num = 1,
                   !.result.text =
                       IF page_text # ""
                       THEN @ \o <<[marker |-> io.page_num], [page |-> io.page_num]>>
                       ELSE @]
    /\ UNCHANGED <<now, files, stage, ret>>

\* utils.py 730-741: the record of a table (rows, texto_formateado and
\* structure are not modelled), the count, the text of the table
TablasRegistra(result, page_num, table_num) ==
    [result EXCEPT
        !.tables = Append(@, [page |-> page_num, tabla_numero |-> table_num]),
        !.total_tables = @ + 1,
        !.text = Append(@, [table |-> result.total_tablas + 1])]

\* utils.py 716-741 for one table of the page: an empty table is skipped;
\* for any other table line 722 reads result['total_tablas'], a key that
\* result (696-701) does not have, and raises KeyError.
TablasTabla ==
    /\ stage = "extract_pdf_tables" /\ io.pc = "tables"
    /\ io.table_num <= Len(io.pdf.pages[io.page_num].tables)
    /\ LET table == io.pdf.pages[io.page_num].tables[io.table_num]
       IN IF table = <<>>
          THEN io' = [io EXCEPT !.table_num = @ + 1]
          ELSE IF "total_tablas" \notin DOMAIN io.result
          THEN io' = [io EXCEPT !.pc = "except"]
          ELSE io' = [io EXCEPT
                        !.table_num = @ + 1,
                        !.result = TablasRegistra(@, io.page_num, io.table_num)]
    /\ UNCHANGED <<now, files, stage, ret>>

\* utils.py 706, 716: the tables of the page are exhausted.
TablasFinPagina ==
    /\ stage = "extract_pdf_tables" /\ io.pc = "tables"
    /\ io.table_num > Len(io.pdf.pages[io.page_num].tables)
    /\ io' = [io EXCEPT
                !.pc = IF io.page_num = Len(io.pdf.pages) THEN "return" ELSE "page",
                !.page_num = @ + 1]
    /\ UNCHANGED <<now, files, stage, ret>>

\* utils.py 743
TablasReturn ==
    /\ stage = "extract_pdf_tables" /\ io.pc = "return"
    /\ ret' = IF io.result.text # <<>> THEN io.result ELSE NoResult
    /\ io' = [io EXCEPT !.pc = "done"]
    /\ UNCHANGED <<now, files, stage>>

\* utils.py 749-751
TablasExcept ==
    /\ stage = "extract_pdf_tables" /\ io.pc = "except"
    /\ ret' = NoResult
    /\ io' = [io EXCEPT !.pc = "done"]
    /\ UNCHANGED <<now, files, stage>>

\* A call of extract_pdf_tables on some document.
InitTablas ==
    /\ now = 0
    /\ siss_file = AbsentFile
    /\ tarifas_file = AbsentFile
    /\ registro_descargas = AbsentFile
    /\ pdfs_disk = {}
    /\ registro_analisis = AbsentFile
    /\ stage = "none"
    /\ ret = [success |-> FALSE]
    /\ \E pdf \in DocumentosPdf :
          io = [pc |-> "start", pdf |-> pdf, page_num |-> 0, table_num |-> 0,
                result |-> None]

NextTablas ==
    \/ TablasAbrir
    \/ TablasTexto
    \/ TablasTabla
    \/ TablasFinPagina
    \/ TablasReturn
    \/ TablasExcept

SpecTablas == InitTablas /\ [][NextTablas]_vars

(***************************************************************************)
(* Names, paths and keys, character by character                           *)
(***************************************************************************)
\* The length of a name.
MaxNombre == 2

\* A name is a string, here the list of its pieces: a letter, a space, an
\* underscore, a slash, or the four characters ".pdf".
Piezas == {"a", " ", "_", "/", ".pdf"}
Nombres == UNION {[1..n -> Piezas] : n \in 1..MaxNombre}

\* str.replace(old, new) for a piece old and a string new
RECURSIVE Replace(_, _, _)
Replace(s, old, new) ==
    IF s = <<>> THEN <<>>
    ELSE (IF Head(s) = old THEN new ELSE <<Head(s)>>) \o Replace(Tail(s), old, new)

\* core.py 510, 522: name.replace(" ", "_").replace("/", "_")
NombreDir(name) == Replace(Replace(name, " ", <<"_">>), "/", <<"_">>)

\* core.py 510-524: the path of the PDF, as the list of its components
NombresRuta ==
    /\ io.pc = "descarga"
    /\ LET empresa_dir    == NombreDir(io.empresa)
           localidad_file == NombreDir(io.localidad)
       IN io' = [io EXCEPT !.pc = "analisis",
                           !.ruta_pdf = <<pdfs_path, empresa_dir,
                                          localidad_file \o <<".pdf">>>>]
    /\ stage' = "descargar_pdfs"
    /\ UNCHANGED <<now, files, ret>>

\* core.py 740-741: filename and folder of the record, from the path;
\* utils.py 873, 877: the keys of the aggregator
NombresClaves ==
    /\ io.pc = "analisis"
    /\ LET folder   == io.ruta_pdf[Len(io.ruta_pdf) - 1]
           filename == io.ruta_pdf[Len(io.ruta_pdf)]
       IN io' = [io EXCEPT !.pc = "jerarquia",
                           !.company = folder,
                           !.locality = Replace(filename, ".pdf", <<>>)]
    /\ stage' = "analyze_pdfs"
    /\ UNCHANGED <<now, files, ret>>

\* utils.py 882, 895: the display names
NombresLegibles ==
    /\ io.pc = "jerarquia"
    /\ io' = [io EXCEPT !.pc = "done",
                        !.company_name = Replace(io.company, "_", <<" ">>),
                        !.locality_name = Replace(io.locality, "_", <<" ">>)]
    /\ stage' = "organize_hierarchical_analysis"
    /\ UNCHANGED <<now, files, ret>>

\* One tariff entry, of some company and locality, on its way through the
\* download, the analysis and the aggregator.
InitNombres ==
    /\ now = 0
    /\ siss_file = AbsentFile
    /\ tarifas_file = AbsentFile
    /\ registro_descargas = AbsentFile
    /\ pdfs_disk = {}
    /\ registro_analisis = AbsentFile
    /\ stage = "none"
    /\ ret = [success |-> FALSE]
    /\ \E empresa \in Nombres, localidad \in Nombres :
          io = [pc |-> "descarga", empresa |-> empresa, localidad |-> localidad,
                ruta_pdf |-> <<>>, company |-> <<>>, locality |-> <<>>,
                company_name |-> <<>>, locality_name |-> <<>>]

NextNombres == NombresRuta \/ NombresClaves \/ NombresLegibles

SpecNombres == InitNombres /\ [][NextNombres]_vars

(***************************************************************************)
(* Properties of the change-detection stages.  They are stated on the      *)
(* state after a stage call: ret is what the call returned, io.previo the  *)
(* state file before the call, io.datos what was handed to save_json and   *)
(* io.extern what the network answered.                                    *)
(***************************************************************************)
ChangeRun == stage \in {"verificar_siss", "monitorear_tarifas_vigentes"}
IsSiss == stage = "verificar_siss"
IsTarifas == stage = "monitorear_tarifas_vigentes"

\* The stage's state file after the call.
StageFile == IF IsSiss THEN siss_file ELSE tarifas_file

\* The payload of a state file or of a history entry, and the payload the call computed.
PayloadOf(f) == IF IsSiss THEN <<f.url_final, f.url_tarifas_vigentes>> ELSE f.empresas
RetPayload == PayloadOf(ret)

IsPrefix(a, b) == Len(a) <= Len(b) /\ SubSeq(b, 1, Len(a)) = a

\* A scrape as a multiset of company blocks, a block being the company name
\* with the multiset of its tariff entries.
TarifaBag(e) ==
    [t \in Range(e.tarifas) |-> Cardinality({i \in DOMAIN e.tarifas : e.tarifas[i] = t})]
Block(e) == <<e.empresa, TarifaBag(e)>>
BlockBag(S) ==
    [b \in {Block(S[i]) : i \in DOMAIN S} |->
        Cardinality({i \in DOMAIN S : Block(S[i]) = b})]
SameBlocks(a, b) == BlockBag(a) = BlockBag(b)

\* A scrape as a set of (company, locality, PDF URL) tuples.
TupleSet(S) ==
    UNION {{<<S[i].empresa, S[i].tarifas[j].localidad, S[i].tarifas[j].url_pdf>> :
                j \in DOMAIN S[i].tarifas} : i \in DOMAIN S}

\* The computed payload differs from the persisted one under the stage's equality.
PayloadDiffers ==
    IF IsSiss THEN RetPayload # PayloadOf(io.previo)
    ELSE ~SameBlocks(ret.empresas, io.previo.empresas)

\* h is the previous history followed by exactly one entry, which is the
\* previous payload with the previous timestamp and not the new payload.
OneSnapshotAppended(h) ==
    /\ Len(h) = Len(io.previo.historial) + 1
    /\ IsPrefix(io.previo.historial, h)
    /\ h[Len(h)].timestamp = io.previo.timestamp
    /\ PayloadOf(h[Len(h)]) = PayloadOf(io.previo)
    /\ PayloadOf(h[Len(h)]) # RetPayload

\* C1: a run that finds a state file and computes the payload the file holds
\* returns guardado=false, issues no write and leaves the file (payload,
\* timestamp, history) exactly as it was; so does every further such run.
C1_Idempotente ==
    (ChangeRun /\ ret.success /\ Loaded(io.previo) /\ RetPayload = PayloadOf(io.previo))
        => (ret.guardado = FALSE /\ ~io.save_called /\ StageFile = io.previo)

C1_Witness ==
    /\ IsSiss /\ ret.success /\ Loaded(io.previo)
    /\ RetPayload = PayloadOf(io.previo)
    /\ Len(siss_file.historial) >= 1
    /\ ret.guardado = FALSE

\* C2 as claimed: a run that finds a state file and computes a different
\* payload returns guardado=true and the file then holds the new payload and
\* the previous history plus one entry, the previous payload with its timestamp.
C2_Original ==
    (ChangeRun /\ ret.success /\ Loaded(io.previo) /\ PayloadDiffers)
        => /\ ret.guardado = TRUE
           /\ Loaded(StageFile)
           /\ PayloadOf(StageFile) = RetPayload
           /\ OneSnapshotAppended(StageFile.historial)

\* C2 as amended: such a run hands save_json a state with the new payload and
\* the previous history plus one entry (previous payload, previous timestamp);
\* guardado is the result of that write: it is true exactly when the file
\* holds that state afterwards.
C2_CambioPropagado ==
    (ChangeRun /\ ret.success /\ Loaded(io.previo) /\ PayloadDiffers)
        => /\ io.save_called
           /\ Loaded(io.datos)
           /\ PayloadOf(io.datos) = RetPayload
           /\ OneSnapshotAppended(io.datos.historial)
           /\ ret.guardado = (StageFile = io.datos)

C2_Witness ==
    /\ IsTarifas /\ ret.success /\ Loaded(io.previo) /\ PayloadDiffers
    /\ Len(io.previo.historial) >= 1
    /\ ret.guardado = TRUE
    /\ Len(tarifas_file.historial) = Len(io.previo.historial) + 1

C4_Original ==
    (ChangeRun /\ ret.success /\ ~Loaded(io.previo))
        => /\ ret.is_first_time = TRUE
           /\ ret.guardado = TRUE
           /\ Loaded(StageFile)
           /\ PayloadOf(StageFile) = RetPayload
           /\ StageFile.verificado = TRUE
           /\ StageFile.historial = <<>>

\* C4 as amended: such a run returns is_first_time=true whatever the payload
\* is and hands save_json a state with that payload, verificado=true and an
\* empty history; guardado is the result of that write: it is true exactly
\* when the file holds that state afterwards.
C4_PrimeraVez ==
    (ChangeRun /\ ret.success /\ ~Loaded(io.previo))
        => /\ ret.is_first_time = TRUE
           /\ io.save_called
           /\ Loaded(io.datos)
           /\ PayloadOf(io.datos) = RetPayload
           /\ io.datos.verificado = TRUE
           /\ io.datos.historial = <<>>
           /\ ret.guardado = (StageFile = io.datos)

C4_Witness ==
    /\ IsSiss /\ ret.success /\ ~Loaded(io.previo)
    /\ ret.is_first_time = TRUE /\ ret.guardado = TRUE
    /\ siss_file.historial = <<>> /\ siss_file.verificado = TRUE

\* The payload computation of the call failed.
ComputeFailed ==
    \/ IsSiss /\ io.extern.url_final = None
    \/ IsTarifas /\ io.extern.scraped /\ io.extern.empresas = <<>>

\* C5: when the redirect yields no URL (verificar_siss) or the scrape yields no
\* company (monitorear_tarifas_vigentes), the one failed attempt makes the stage
\* return success=false with an error, without loading, comparing or writing,
\* and the state file is as before.
C5_FalloNoToca ==
    ComputeFailed
        => /\ ret.success = FALSE
           /\ "error" \in DOMAIN ret
           /\ ~io.loaded
           /\ ~io.save_called
           /\ StageFile = io.previo

C5_Witness ==
    /\ IsSiss /\ io.extern.url_final = None
    /\ Loaded(siss_file) /\ Len(siss_file.historial) >= 1
    /\ ret.success = FALSE

\* C6 as claimed: when the redirect resolves but the "Tarifas vigentes" link
\* cannot be extracted, verificar_siss returns a failure and neither loads nor
\* writes the state file; no state with a missing tariffs URL is persisted.
C6_SinEnlaceEsFallo ==
    (IsSiss /\ io.extern.url_final # None /\ io.extern.url_tarifas = None)
        => /\ ret.success = FALSE
           /\ ~io.loaded
           /\ ~io.save_called
           /\ siss_file = io.previo

\* The change flags of verificar_siss are per URL.
SissFlagsPerUrl ==
    /\ Loaded(io.previo) =>
          /\ ret.cambios.url_final = (io.previo.url_final # ret.url_final)
          /\ ret.cambios.url_tarifas_vigentes =
                (io.previo.url_tarifas_vigentes # ret.url_tarifas_vigentes)
    /\ ~Loaded(io.previo) =>
          /\ ret.cambios.url_final = FALSE
          /\ ret.cambios.url_tarifas_vigentes = FALSE

SissShouldWrite ==
    ret.is_first_time \/ ret.cambios.url_final \/ ret.cambios.url_tarifas_vigentes

\* C7 as claimed: each flag is true iff a prior state exists and that URL
\* differs from the stored one, both are false on the first run, and the state
\* is written iff it is the first time or a flag is true.
C7_Original ==
    (IsSiss /\ ret.success)
        => /\ SissFlagsPerUrl
           /\ (siss_file # io.previo) <=> SissShouldWrite

\* C7 as amended: the flags are as claimed; a write is issued iff it is the
\* first time or a flag is true; the file holds the new state afterwards iff
\* that write was issued and succeeded (guardado), and is untouched when no
\* write was issued.
C7_IgualdadPorUrl ==
    (IsSiss /\ ret.success)
        => /\ SissFlagsPerUrl
           /\ ret.is_first_time = ~Loaded(io.previo)
           /\ io.save_called <=> SissShouldWrite
           /\ (siss_file = io.datos) <=> (io.save_called /\ ret.guardado)
           /\ ~io.save_called => siss_file = io.previo

C7_Witness ==
    /\ IsSiss /\ ret.success /\ Loaded(io.previo)
    /\ ret.cambios.url_final = FALSE
    /\ ret.cambios.url_tarifas_vigentes = TRUE
    /\ io.previo.url_tarifas_vigentes # None /\ ret.url_tarifas_vigentes # None
    /\ ret.guardado = TRUE

\* C8 as claimed: with a prior state, no change is detected and nothing is
\* written iff both scrapes hold the same set of (company, locality, URL) tuples.
C8_Original ==
    (IsTarifas /\ ret.success /\ Loaded(io.previo))
        => ((ret.cambios_detectados = FALSE /\ ~io.save_called)
                <=> TupleSet(ret.empresas) = TupleSet(io.previo.empresas))

\* C8 as amended: with a prior state, no change is detected and nothing is
\* written iff both scrapes hold the same multiset of company blocks, a block
\* being a company name with the multiset of its tariff entries; the order of
\* the blocks and of the entries in a block does not matter, repeated blocks
\* or entries and the split of a company into blocks do.
C8_IgualdadSinOrden ==
    (IsTarifas /\ ret.success /\ Loaded(io.previo))
        => ((ret.cambios_detectados = FALSE /\ ~io.save_called)
                <=> SameBlocks(ret.empresas, io.previo.empresas))

C8_Witness ==
    /\ IsTarifas /\ ret.success /\ Loaded(io.previo)
    /\ Len(ret.empresas) = 2 /\ Len(io.previo.empresas) = 2
    /\ Len(io.previo.empresas[1].tarifas) = 2
    /\ ret.empresas[1].empresa # ret.empresas[2].empresa
    /\ ret.empresas[1] = io.previo.empresas[2]
    /\ Len(ret.empresas[2].tarifas) = 2
    /\ ret.empresas[2].tarifas[1] # ret.empresas[2].tarifas[2]
    /\ ret.empresas[2].tarifas[1] = io.previo.empresas[1].tarifas[2]
    /\ ret.empresas[2].tarifas[2] = io.previo.empresas[1].tarifas[1]
    /\ ret.cambios_detectados = FALSE
    /\ tarifas_file = io.previo

(***************************************************************************)
(* Properties of the accumulating stages.  io.json is the tariff JSON the  *)
(* download run read, io.previo the registry before the call, io.intentos  *)
(* the entries download_pdf was called for, io.resultados what those calls *)
(* did, io.disk the PDF folder before an analysis run and                  *)
(* io.pdfs_to_analyze the files that run set out to analyse.               *)
(***************************************************************************)
IsDescarga == stage = "descargar_pdfs"
IsAnalisis == stage = "analyze_pdfs"

\* The URLs recorded in the download registry before the run.
UrlsRegistradas ==
    IF Loaded(io.previo)
    THEN {io.previo.pdfs_descargados[i].url_pdf : i \in DOMAIN io.previo.pdfs_descargados}
    ELSE {}

\* The positions (company block, entry) of the tariff JSON, and those whose
\* URL the registry records.
PosicionesJson ==
    UNION {{<<i, j>> : j \in DOMAIN io.json.empresas[i].tarifas} :
              i \in DOMAIN io.json.empresas}
PosicionesRegistradas ==
    {x \in PosicionesJson : io.json.empresas[x[1]].tarifas[x[2]].url_pdf \in UrlsRegistradas}

\* C9: a download run that gets as far as the registry calls download_pdf once
\* for every tariff entry when there is no registry, and otherwise once for
\* each entry whose url_pdf the registry does not record, in the order of the
\* JSON, and for no other: N entries of which M are recorded give N-M calls.
C9_SoloNoRegistrados ==
    (IsDescarga /\ ret.success)
        => LET entradas == DescargaEntradas(io.json.empresas)
               N == Cardinality(PosicionesJson)
               M == Cardinality(PosicionesRegistradas)
           IN /\ Loaded(io.previo) =>
                    /\ io.intentos =
                          SelectSeq(entradas, LAMBDA e : e.url_pdf \notin UrlsRegistradas)
                    /\ Len(io.intentos) = N - M
              /\ ~Loaded(io.previo) =>
                    /\ io.intentos = entradas
                    /\ Len(io.intentos) = N
              /\ Len(io.resultados) = Len(io.intentos)
              /\ ret.descargados + ret.failed = Len(io.intentos)
              /\ ret.total_pdfs = N

C9_Witness ==
    /\ IsDescarga /\ ret.success /\ Loaded(io.previo)
    /\ Cardinality(PosicionesJson) = 2
    /\ Cardinality(PosicionesRegistradas) = 1
    /\ Len(io.intentos) = 1
    /\ io.intentos[1].url_pdf = "pdf/2"
    /\ ret.descargados = 1

\* C10 as claimed: an analysis run with only_new=true sets out to analyse every
\* PDF on disk when there is no registry, and otherwise exactly the PDFs on
\* disk whose path is not the path of a record of the registry's analysed list.
C10_SoloNuevos ==
    (IsAnalisis /\ io.only_new)
        => Range(io.pdfs_to_analyze) =
              IF Loaded(io.previo)
              THEN {p \in io.disk :
                      \A i \in DOMAIN io.previo.analyzed_pdfs :
                          io.previo.analyzed_pdfs[i].ruta_pdf # p}
              ELSE io.disk

IsAcumula == IsDescarga \/ IsAnalisis
\* The call returned a dict (it did not raise).
Returned == "success" \in DOMAIN ret

\* The registry of the stage after the call, and the cumulative processed
\* list of a registry (empty when there is no registry).
Registro == IF IsDescarga THEN registro_descargas ELSE registro_analisis
ListaDe(registro) ==
    IF ~Loaded(registro) THEN <<>>
    ELSE IF IsDescarga THEN registro.pdfs_descargados ELSE registro.analyzed_pdfs

\* The items the run processed successfully, in processing order.
Exitos == IF IsDescarga THEN ret.pdfs_descargados ELSE ret.analyzed_pdfs
\* The registry write of the run was made and succeeded.
RegistroGuardado == io.save_called /\ ret.registry_saved

Id(x) == IF IsDescarga THEN x.url_pdf ELSE x.ruta_pdf
Ids(s) == {Id(s[i]) : i \in DOMAIN s}

\* The run got as far as its candidates; its failure list; the identities it
\* attempted; the identities of its work set.
AcumulaRun == IsAcumula /\ Returned /\ ret.success /\ io.save_called
Fallidos == ret.failed_pdfs
Intentados ==
    IF IsDescarga THEN {io.intentos[i].url_pdf : i \in DOMAIN io.intentos}
    ELSE Range(io.pdfs_to_analyze)
WorkSet ==
    IF IsDescarga
    THEN IF Loaded(io.json)
         THEN {e.url_pdf : e \in Range(DescargaEntradas(io.json.empresas))}
         ELSE {}
    ELSE io.disk

FalloNoRegistrado ==
    AcumulaRun
        => \A f \in Range(Fallidos) :
              Id(f) \in Ids(ListaDe(Registro))
                 => Id(f) \in Ids(ListaDe(io.previo)) \cup Ids(Exitos)

\* The step is the next run of the stage that ran last, and every item that
\* failed in the last run, is not in the persisted list and is still in the
\* work set is among the items the next run attempts.
FalloReofrecido ==
    (AcumulaRun /\ stage' = stage /\ now' # now)
        => \A f \in Range(Fallidos) :
              (Id(f) \notin Ids(ListaDe(Registro)) /\ Id(f) \in WorkSet')
                 => Id(f) \in Intentados'

Historial(registro) ==
    IF ~Loaded(registro) THEN <<>>
    ELSE IF IsDescarga THEN registro.historial_descargas
    ELSE registro.analysis_history
EntradaExitos(e) == IF IsDescarga THEN e.descargados ELSE e.analyzed

\* h is the history previo followed by one entry holding the counts and the
\* first-time flag of the run that just returned.
UnaEntradaMas(previo, h) ==
    /\ Len(h) = Len(previo) + 1
    /\ SubSeq(h, 1, Len(previo)) = previo
    /\ EntradaExitos(h[Len(h)]) = Len(Exitos)
    /\ h[Len(h)].failed = Len(Fallidos)
    /\ h[Len(h)].is_first_time = ~Loaded(io.previo)

Candidatos == IF IsDescarga THEN io.intentos ELSE io.pdfs_to_analyze

\* C14: a run that got to its loop returns success=true with every candidate in
\* exactly one of the success list and the failure list: the two lengths add
\* up to the number of candidates (to total_pdfs on a first-time download).
C14_BatchIsolation ==
    (IsAcumula /\ io.loaded) =>
        /\ Returned /\ ret.success
        /\ Len(Exitos) + Len(Fallidos) = Len(Candidatos)
        /\ (IsDescarga /\ ret.is_first_time) => ret.total_pdfs = Len(Candidatos)

\* C15: every stage operation ends by returning a result with a success flag.
C15_NoException == stage # "none" => "success" \in DOMAIN ret

(***************************************************************************)
(* Properties of the pipeline (SpecMain).                                  *)
(***************************************************************************)
\* The place of a stage in the order of main; 0 before the first stage.
MainStages ==
    <<"verificar_siss", "monitorear_tarifas_vigentes", "descargar_pdfs", "analyze_pdfs">>
Orden(s) == IF \E i \in 1..4 : MainStages[i] = s
            THEN CHOOSE i \in 1..4 : MainStages[i] = s
            ELSE 0

\* C16: every stage call of main is the call of the stage that follows, in
\* the order redirect check, tariff scrape, download, analysis, the stage that
\* returned last (the first stage at the start of an invocation), so within an
\* invocation the stages run one at a time, in that order, each at most once.
C16_OrdenFijo ==
    [][Orden(stage') # 0 =>
          /\ Orden(stage') = Orden(stage) + 1
          /\ now' = now + 1
          /\ Orden(stage) # 0 => ("success" \in DOMAIN ret)]_vars

\* An invocation has run the four stages and ended.
C16_Witness ==
    /\ stage = "exit" /\ ret.last = "analyze_pdfs" /\ ret.exit_code = 0
    /\ Loaded(registro_descargas) /\ Loaded(registro_analisis)

\* C17 as claimed: an invocation that ends with the tariff JSON on disk has run
\* the stages up to the analysis, whatever the first two stages returned.
C17_Original ==
    (stage = "exit" /\ Loaded(tarifas_file)) => ret.last = "analyze_pdfs"

\* C17 as amended: after the download stage, failed or not, the analysis stage
\* runs; after a failed redirect check or tariff scrape main ends with exit
\* code 1 and runs no further stage, tariff JSON on disk or not.
C17_FalloYSiguientes ==
    [][/\ stage = "descargar_pdfs" => stage' = "analyze_pdfs"
       /\ MainAborta => /\ stage' = "exit" /\ ret'.exit_code = 1
                        /\ UNCHANGED <<registro_descargas, pdfs_disk,
                                       registro_analisis>>]_vars

\* The scrape failed with the tariff JSON of an earlier invocation on disk, and
\* main ended there.
C17_Witness ==
    /\ stage = "exit" /\ ret.exit_code = 1
    /\ ret.last = "monitorear_tarifas_vigentes"
    /\ Loaded(tarifas_file) /\ Loaded(registro_descargas)

(***************************************************************************)
(* Properties of overlapping runs (SpecRace).                              *)
(***************************************************************************)
\* a and b ran the same stage, both loaded before either wrote, both wrote
\* with success, and b wrote last.
Solapan(a, b) ==
    /\ a # b
    /\ io[a].pc = "done" /\ io[b].pc = "done"
    /\ io[a].stage = io[b].stage
    /\ io[a].cargado < io[b].escrito /\ io[b].cargado < io[a].escrito
    /\ io[a].guardado /\ io[b].guardado
    /\ io[a].escrito < io[b].escrito

\* The timestamps found in a state file: of the file and its history snapshots
\* (siss_url.json), of its records and its run-history entries (registry).
RaceTimestamps(s, file) ==
    IF ~Loaded(file) THEN {}
    ELSE IF s = "verificar_siss"
    THEN {file.timestamp} \cup {file.historial[i].timestamp : i \in DOMAIN file.historial}
    ELSE {file.pdfs_descargados[i].timestamp : i \in DOMAIN file.pdfs_descargados}
         \cup {file.historial_descargas[i].timestamp :
                   i \in DOMAIN file.historial_descargas}

\* C18: when two runs of a stage overlap and both write, the file is what the
\* last writer wrote; nothing the other run wrote is in it; and both runs
\* returned success with the write reported as done and no error.
C18_UltimoGana ==
    \A a, b \in RaceRuns :
        Solapan(a, b) =>
            /\ RaceFile(io[b].stage) = io[b].datos
            /\ io[a].cargado \in RaceTimestamps(io[a].stage, io[a].datos)
            /\ io[a].cargado \notin RaceTimestamps(io[b].stage, RaceFile(io[b].stage))
            /\ \A r \in {a, b} :
                  /\ ret[r].success /\ "error" \notin DOMAIN ret[r]
                  /\ IF io[r].stage = "verificar_siss" THEN ret[r].guardado
                     ELSE ret[r].registry_saved

\* Two download runs overlapped; the first writer had downloaded a PDF that is
\* on disk and in no record of the registry.
C18_Witness ==
    /\ Solapan("A", "B")
    /\ io["A"].stage = "descargar_pdfs"
    /\ Len(ret["A"].pdfs_descargados) = 1
    /\ ret["B"].descargados = 0
    /\ registro_descargas.pdfs_descargados = <<>>
    /\ ret["A"].pdfs_descargados[1].ruta_local \in pdfs_disk

(***************************************************************************)
(* Properties of parse_table_structure (SpecParse).                        *)
(***************************************************************************)
RECURSIVE SumData(_)
SumData(sections) ==
    IF sections = <<>> THEN 0 ELSE Len(sections[1].data) + SumData(Tail(sections))

IsParse == stage = "parse_table_structure"
ParseDone == IsParse /\ io.pc = "done"

\* C19: after each processed row total_concepts is the number of direct data
\* plus the data of the closed sections and of the open one, and the returned
\* structure has total_concepts = len(direct_data) + the data of its sections.
C19_TotalConcepts ==
    IsParse =>
        /\ io.total_concepts =
              Len(io.direct_data) + SumData(io.sections \o io.current_section)
        /\ io.pc = "done" =>
              ret.total_concepts = Len(ret.direct_data) + SumData(ret.sections)

\* A direct pair, a section header and a pair of the open section have been
\* processed and the function has returned the section closed.
C19_Witness ==
    /\ ParseDone
    /\ Len(io.direct_data) = 1 /\ io.sections = <<>>
    /\ io.current_section # <<>> /\ Len(io.current_section[1].data) = 1
    /\ ret.total_concepts = 2 /\ Len(ret.sections) = 1

\* C20: the type is with_sections iff there is a section, simple iff there is
\* none and there are direct data, empty iff both lists are empty.
C20_Type ==
    ParseDone =>
        /\ ret.type = "with_sections" <=> ret.sections # <<>>
        /\ ret.type = "simple" <=> (ret.sections = <<>> /\ ret.direct_data # <<>>)
        /\ ret.type = "empty" <=> (ret.sections = <<>> /\ ret.direct_data = <<>>)

\* The significant cells of a row: those with content after trimming.
Significativas(row) ==
    SelectSeq([i \in DOMAIN row |-> CleanCell(row[i])], LAMBDA c : c # "")
\* A row with at least two significant cells whose values are one cell, or
\* hold a value-like cell.
FilaEsPar(row) ==
    LET s == Significativas(row)
    IN /\ Len(s) >= 2
       /\ \/ Len(s) = 2
          \/ \E i \in 2..Len(s) : contains_number_or_price(s[i])
\* A row that starts a section: one significant cell, or several and no pair.
FilaEsEncabezado(row) == Significativas(row) # <<>> /\ ~FilaEsPar(row)
FilaNombre(row) == Join(Significativas(row))

\* The names of the header rows of a table, in the order of the rows.
RECURSIVE Encabezados(_)
Encabezados(table) ==
    IF table = <<>> THEN <<>>
    ELSE (IF FilaEsEncabezado(table[1]) THEN <<FilaNombre(table[1])>> ELSE <<>>)
         \o Encabezados(Tail(table))
\* The concepts of the pair rows that precede the first header row.
RECURSIVE ConceptosDirectos(_)
ConceptosDirectos(table) ==
    IF table = <<>> \/ FilaEsEncabezado(table[1]) THEN <<>>
    ELSE (IF FilaEsPar(table[1]) THEN <<Significativas(table[1])[1]>> ELSE <<>>)
         \o ConceptosDirectos(Tail(table))

\* The step processes one row; the row; the sections closed and open; the
\* number of pairs held.
ParseStep == io.pc = "loop" /\ io'.pc = "loop" /\ Len(io'.table) = Len(io.table) + 1
FilaLeida == io'.table[Len(io'.table)]
Secciones == io.sections \o io.current_section
Pares == Len(io.direct_data) + SumData(Secciones)

\* C21: at most one section is open; a row with exactly one significant cell
\* appends the open section to sections, whatever its data, and opens a new
\* one named by the cell; at the end the open section is appended; so the
\* sections are those of the header rows, in their order.
C21_Secciones ==
    [][/\ Len(io'.current_section) <= 1
       /\ (ParseStep /\ Len(Significativas(FilaLeida)) = 1) =>
             /\ io'.sections = io.sections \o io.current_section
             /\ io'.current_section =
                    <<[section_name |-> Significativas(FilaLeida)[1], data |-> <<>>]>>
       /\ (ParseStep \/ io'.pc = "done") =>
             [i \in DOMAIN Secciones' |-> Secciones'[i].section_name]
                = Encabezados(io'.table)
       /\ (io'.pc = "done" /\ io'.table # <<>>) =>
             ret'.sections = io.sections \o io.current_section]_vars

\* A header directly followed by a header: the first section is kept, empty.
C21_Witness ==
    /\ ParseDone /\ Len(ret.sections) = 2
    /\ ret.sections[1].data = <<>> /\ Len(ret.sections[2].data) = 1
    /\ ret.type = "with_sections"

C23_Colocacion ==
    [][ParseStep =>
          /\ FilaEsPar(FilaLeida) =>
                LET s == Significativas(FilaLeida)
                    par == ParsePar(s[1], Tail(s))
                IN IF io.current_section # <<>>
                   THEN /\ io'.current_section[1].data =
                              Append(io.current_section[1].data, par)
                        /\ io'.direct_data = io.direct_data
                   ELSE /\ io'.direct_data = Append(io.direct_data, par)
                        /\ io'.current_section = <<>>
          /\ Secciones # <<>> => io'.direct_data = io.direct_data
          /\ [i \in DOMAIN io'.direct_data |-> io'.direct_data[i].concept]
                = ConceptosDirectos(io'.table)]_vars

\* A pair before the first header and a pair after it.
C23_Witness ==
    /\ ParseDone /\ Len(ret.direct_data) = 1 /\ Len(ret.sections) = 1
    /\ Len(ret.sections[1].data) = 1 /\ ret.total_rows = 3

(***************************************************************************)
(* Properties of organize_hierarchical_analysis (SpecJerarquia).           *)
(***************************************************************************)
\* The sum of f over its domain.
RECURSIVE Suma(_)
Suma(f) ==
    IF DOMAIN f = {} THEN 0
    ELSE LET x == CHOOSE y \in DOMAIN f : TRUE
         IN f[x] + Suma([y \in DOMAIN f \ {x} |-> f[y]])

IsJerarquia == stage = "organize_hierarchical_analysis"
JerarquiaDone == IsJerarquia /\ io.pc = "done"
\* The company and locality keys of a record, and the records of the input
\* with given keys.
ClaveEmpresa(r) == Get(r, "folder", "Sin_Empresa")
ClaveLocalidad(r) == SinPdf(Get(r, "filename", ""))
RegistrosDe(c, l) ==
    SelectSeq(io.analyzed_pdfs, LAMBDA r : ClaveEmpresa(r) = c /\ ClaveLocalidad(r) = l)

\* C24: summary.total_pdfs is the length of the input list, the sum of the
\* companies' total_pdfs and the sum of the lengths of the localities' lists,
\* and the list of a locality holds the records of that company and locality,
\* all of them, in input order.
C24_TotalPdfs ==
    IsJerarquia =>
        LET s == io.structure
            cs == s.companies
        IN /\ s.summary.total_pdfs = Len(io.analyzed_pdfs)
           /\ s.summary.total_pdfs = Suma([c \in DOMAIN cs |-> cs[c].total_pdfs])
           /\ s.summary.total_pdfs =
                 Suma([c \in DOMAIN cs |->
                         Suma([l \in DOMAIN cs[c].localities |->
                                 Len(cs[c].localities[l].pdfs)])])
           /\ \A c \in DOMAIN cs : \A l \in DOMAIN cs[c].localities :
                 LET pdfs == cs[c].localities[l].pdfs
                     regs == RegistrosDe(c, l)
                 IN /\ Len(pdfs) = Len(regs)
                    /\ \A i \in DOMAIN pdfs :
                          /\ pdfs[i].analysis.timestamp = regs[i].timestamp
                          /\ pdfs[i].pdf_file = Get(regs[i], "filename", "")
           /\ io.pc = "done" => ret = s

\* One file analysed twice and another file: the re-analysis accumulates.
C24_Witness ==
    /\ JerarquiaDone /\ Len(io.analyzed_pdfs) = 3
    /\ ret.summary.total_pdfs = 3 /\ ret.summary.total_localities = 2
    /\ \A i \in {1, 3} : io.analyzed_pdfs[i] =
          [folder |-> "Essbio", filename |-> "Santiago.pdf", timestamp |-> i]
    /\ io.analyzed_pdfs[2] =
          [folder |-> "Essbio", filename |-> "Maipu.pdf", timestamp |-> 2]
    /\ Len(ret.companies["Essbio"].localities["Santiago"].pdfs) = 2

\* C25: the companies are the distinct company keys of the input, each with
\* its distinct locality keys, each counted once; total_localities of the
\* summary is the number of distinct (company, locality) pairs; an empty input
\* gives no company and zero counts.
C25_Conteos ==
    IsJerarquia =>
        LET s == io.structure
            recs == Range(io.analyzed_pdfs)
            claves(c) == {ClaveLocalidad(r) : r \in {x \in recs : ClaveEmpresa(x) = c}}
        IN /\ DOMAIN s.companies = {ClaveEmpresa(r) : r \in recs}
           /\ s.summary.total_companies = Cardinality({ClaveEmpresa(r) : r \in recs})
           /\ \A c \in DOMAIN s.companies :
                 /\ DOMAIN s.companies[c].localities = claves(c)
                 /\ s.companies[c].total_localities = Cardinality(claves(c))
           /\ s.summary.total_localities =
                 Cardinality({<<ClaveEmpresa(r), ClaveLocalidad(r)>> : r \in recs})
           /\ io.analyzed_pdfs = <<>> =>
                 /\ DOMAIN s.companies = {}
                 /\ s.summary = [total_companies |-> 0, total_localities |-> 0,
                                  total_pdfs |-> 0]

\* The same locality under two companies, one of them with two records.
C25_Witness ==
    /\ JerarquiaDone /\ Len(io.analyzed_pdfs) = 3
    /\ ret.summary.total_companies = 2 /\ ret.summary.total_localities = 2
    /\ DOMAIN ret.companies = {"Essbio", "Aguas_Andinas"}
    /\ \A c \in DOMAIN ret.companies : DOMAIN ret.companies[c].localities = {"Maipu"}

\* The file name without its extension: the part before the last ".pdf" or
\* ".PDF" that ends the name.
SinExtension(filename) ==
    IF filename = "Maipu.pdf.pdf" THEN "Maipu.pdf"
    ELSE IF filename = "Maipu.PDF" THEN "Maipu"
    ELSE IF filename = "San_Felipe.pdf" THEN "San_Felipe"
    ELSE IF filename \in DOMAIN SinPdfTable THEN SinPdfTable[filename]
    ELSE filename

\* C26: a record with folder and file name is filed under the company key
\* that is its folder name and the locality key that is its file name without
\* the extension, and the display names are the keys with "_" replaced by " ".
C26_Claves ==
    IsJerarquia =>
        \A i \in DOMAIN io.analyzed_pdfs :
            LET r == io.analyzed_pdfs[i]
                cs == io.structure.companies
            IN {"folder", "filename"} \subseteq DOMAIN r =>
                 /\ r.folder \in DOMAIN cs
                 /\ cs[r.folder].company_name = Legible(r.folder)
                 /\ SinExtension(r.filename) \in DOMAIN cs[r.folder].localities
                 /\ cs[r.folder].localities[SinExtension(r.filename)].locality_name
                       = Legible(SinExtension(r.filename))

(***************************************************************************)
(* The derived view in the analysis registry (SpecAcumula).                *)
(***************************************************************************)
\* C27: the hierarchical_structure of the analysis registry is the aggregator
\* applied to the analyzed_pdfs list of the same registry, and its
\* summary.total_pdfs is total_analyzed_pdfs and the length of that list.
C27_VistaDerivada ==
    Loaded(registro_analisis) =>
        /\ registro_analisis.hierarchical_structure
             = organize_hierarchical_analysis(registro_analisis.analyzed_pdfs)
        /\ registro_analisis.hierarchical_structure.summary.total_pdfs
             = registro_analisis.total_analyzed_pdfs
        /\ registro_analisis.total_analyzed_pdfs = Len(registro_analisis.analyzed_pdfs)

\* A later run wrote the registry: the view covers the records of the
\* earlier runs and those of this one.
C27_Witness ==
    /\ IsAnalisis /\ Returned /\ ret.success /\ io.save_called
    /\ registro_analisis = io.datos
    /\ Loaded(io.previo) /\ Len(io.previo.analyzed_pdfs) >= 1
    /\ Len(ret.analyzed_pdfs) >= 1
    /\ registro_analisis.hierarchical_structure.summary.total_pdfs
         = Len(io.previo.analyzed_pdfs) + Len(ret.analyzed_pdfs)

(***************************************************************************)
(* Properties of extract_pdf_tables (SpecTablas).                          *)
(***************************************************************************)
IsTablas == stage = "extract_pdf_tables"
TablasDone == IsTablas /\ io.pc = "done"
\* The non-empty tables of the document in page order, each with its page.
RECURSIVE TablasLlenas(_, _)
TablasLlenas(pages, n) ==
    IF n = 0 THEN <<>>
    ELSE TablasLlenas(pages, n - 1) \o
         [k \in 1..Len(SelectSeq(pages[n].tables, LAMBDA t : t # <<>>)) |-> [page |-> n]]
\* The pages of the document that have text, in page order.
PaginasConTexto(pages) ==
    SelectSeq([n \in DOMAIN pages |-> n], LAMBDA n : pages[n].text # "")

\* C28: when the call on an existing document is over, the k-th non-empty
\* table in page order is recorded with its page and the index k, and
\* total_tables is the number of those tables.
C28_IndiceDocumento ==
    (TablasDone /\ io.pdf.exists /\ TablasLlenas(io.pdf.pages, Len(io.pdf.pages)) # <<>>) =>
        LET llenas == TablasLlenas(io.pdf.pages, Len(io.pdf.pages))
        IN /\ ret # NoResult
           /\ ret.total_tables = Len(llenas)
           /\ Len(ret.tables) = Len(llenas)
           /\ \A k \in DOMAIN llenas :
                 /\ ret.tables[k].page = llenas[k].page
                 /\ ret.tables[k].tabla_numero = k

\* C29: the call returns None exactly when no page has text and no page has
\* a non-empty table; otherwise the result counts the recorded tables and
\* its text has, in page order, a marker and the text of every page with
\* text.
C29_NoneSiNada ==
    TablasDone =>
        LET pages == io.pdf.pages
            llenas == TablasLlenas(pages, Len(pages))
            con_texto == PaginasConTexto(pages)
        IN /\ ret = NoResult <=> (con_texto = <<>> /\ llenas = <<>>)
           /\ ret # NoResult =>
                 /\ ret.total_tables = Len(ret.tables)
                 /\ SelectSeq(ret.text, LAMBDA x : "page" \in DOMAIN x)
                      = [i \in DOMAIN con_texto |-> [page |-> con_texto[i]]]
                 /\ \A i \in DOMAIN ret.text :
                       "page" \in DOMAIN ret.text[i] =>
                           /\ i > 1
                           /\ ret.text[i - 1] = [marker |-> ret.text[i].page]

(***************************************************************************)
(* The tariff stage called without a URL (SpecViaSiss).                    *)
(***************************************************************************)
IsViaSiss == stage = "monitorear_tarifas_vigentes" /\ "resultado_siss" \in DOMAIN io

\* C30: called without a tariffs URL, the tariff stage runs verificar_siss
\* once; with a link from it, the link is the URL of the stage; when the
\* check fails or gives no link, the stage returns success=false and no
\* companies, and neither scrapes nor loads nor writes the tariff file.
C30_SinUrl ==
    IsViaSiss =>
        /\ io.siss_calls = 1
        /\ IF ~io.resultado_siss.success \/ io.resultado_siss.url_tarifas_vigentes = None
           THEN /\ ~ret.success
                /\ ret.empresas = <<>>
                /\ ret.url_tarifas = None
                /\ ~io.extern.scraped
                /\ ~io.loaded
                /\ ~io.save_called
                /\ tarifas_file = io.previo
           ELSE /\ io.extern.scraped
                /\ ret.url_tarifas = io.resultado_siss.url_tarifas_vigentes

\* The check succeeded and found no link, with a tariff file on disk from an
\* earlier call: the stage gives up and the file is as it was.
C30_Witness ==
    /\ IsViaSiss
    /\ io.resultado_siss.success /\ io.resultado_siss.url_tarifas_vigentes = None
    /\ ~ret.success
    /\ Loaded(tarifas_file) /\ tarifas_file = io.previo

(***************************************************************************)
(* The download stage without a usable tariff JSON (SpecEntrada).          *)
(***************************************************************************)
\* The tariff JSON does not load or lists no company.
SinEntrada(json) == ~Loaded(json) \/ Get(json, "empresas", <<>>) = <<>>

\* C31: when the tariff JSON does not load or lists no company, descargar_pdfs
\* returns success=false with an error, calls download_pdf for nothing, writes
\* no PDF and leaves the download registry as it was.
C31_SinEntrada ==
    [][(DescargarEntrada /\ SinEntrada(tarifas_file)) =>
          /\ ~ret'.success
          /\ "error" \in DOMAIN ret'
          /\ io'.intentos = <<>>
          /\ ~io'.save_called
          /\ pdfs_disk' = pdfs_disk
          /\ registro_descargas' = registro_descargas]_vars

\* A run on a JSON without companies, with a registry of an earlier run.
C31_Witness ==
    /\ IsDescarga /\ ~ret.success
    /\ Loaded(tarifas_file) /\ SinEntrada(tarifas_file)
    /\ Loaded(registro_descargas) /\ Len(registro_descargas.pdfs_descargados) >= 1
    /\ io.previo = registro_descargas

(***************************************************************************)
(* An analysis run with nothing to analyse (SpecAcumula).                  *)
(***************************************************************************)
\* The PDFs on disk at the call that have a record in the registry it found.
YaAnalizados ==
    IF Loaded(io.previo)
    THEN {p \in io.disk : \E i \in DOMAIN io.previo.analyzed_pdfs :
                              io.previo.analyzed_pdfs[i].ruta_pdf = p}
    ELSE {}

\* C32: an analysis run that returns, with no PDF on disk or (only_new) with
\* every PDF on disk already analysed, returns success=true and zero counts
\* and leaves the analysis registry as it was.
C32_SinCandidatos ==
    (IsAnalisis /\ Returned /\ (io.disk = {} \/ (io.only_new /\ YaAnalizados = io.disk))) =>
        /\ ret.success
        /\ ret.total_pdfs = 0 /\ ret.analyzed = 0 /\ ret.failed = 0
        /\ ~io.save_called
        /\ registro_analisis = io.previo

(***************************************************************************)
(* The choice of the extractor with extract_tables=True (SpecExtractor).   *)
(***************************************************************************)
\* extract_pdf_tables gave nothing for the candidate p of the call, and the
\* OCR extractor gives something for it.
SinContenido(p) == ~Truthy(extract_pdf_tables(io.clases[p]))
OcrDa(p) == Truthy(extract_pdf_text_with_ocr(io.clases[p], io.ocr_ok))
EnLista(lista, p) == \E i \in DOMAIN lista : lista[i].ruta_pdf = p

\* C33: in a call with extract_tables=True, a candidate for which
\* extract_pdf_tables gave nothing is recorded as failed when use_ocr is false
\* or OCR gave nothing too, and as analysed with used_ocr=true when use_ocr is
\* true and OCR gave a text; no record has used_ocr=true otherwise.
C33_Extractor ==
    (IsAnalisis /\ "clases" \in DOMAIN io) =>
        \A p \in Range(io.pdfs_to_analyze) :
            /\ (SinContenido(p) /\ ~(io.use_ocr /\ OcrDa(p))) =>
                    /\ Returned
                    /\ EnLista(ret.failed_pdfs, p)
                    /\ ~EnLista(ret.analyzed_pdfs, p)
            /\ (SinContenido(p) /\ io.use_ocr /\ OcrDa(p)) =>
                    /\ Returned
                    /\ \E i \in DOMAIN ret.analyzed_pdfs :
                          /\ ret.analyzed_pdfs[i].ruta_pdf = p
                          /\ ret.analyzed_pdfs[i].used_ocr
            /\ Returned =>
                  \A i \in DOMAIN ret.analyzed_pdfs :
                      (ret.analyzed_pdfs[i].ruta_pdf = p /\ ret.analyzed_pdfs[i].used_ocr)
                          => (SinContenido(p) /\ io.use_ocr)

(***************************************************************************)
(* Names, folder and file keys, display names (SpecNombres).               *)
(***************************************************************************)
NombresDone == "empresa" \in DOMAIN io /\ io.pc = "done"
\* The name with every space and every "/" replaced by "_", piece by piece.
ConGuiones(name) ==
    [i \in DOMAIN name |-> IF name[i] \in {" ", "/"} THEN "_" ELSE name[i]]
\* The names differ at most in space versus underscore versus "/".
SoloSeparadores(a, b) ==
    /\ Len(a) = Len(b)
    /\ \A i \in DOMAIN a : a[i] = b[i] \/ {a[i], b[i]} \subseteq {" ", "_", "/"}
SinGuionNiBarra(name) == \A i \in DOMAIN name : name[i] \notin {"_", "/"}

\* C34: the folder and the file of the path are the names with every space
\* and every "/" replaced by "_"; the display name is the original name
\* exactly when the name has no underscore and no "/"; and the pairs that
\* differ from this one only in space, underscore or "/" have the same path.
C34_IdaYVuelta ==
    NombresDone =>
        /\ io.ruta_pdf = <<pdfs_path, ConGuiones(io.empresa),
                           ConGuiones(io.localidad) \o <<".pdf">>>>
        /\ (io.company_name = io.empresa) <=> SinGuionNiBarra(io.empresa)
        /\ (io.locality_name = io.localidad) <=> SinGuionNiBarra(io.localidad)
        /\ \A e \in Nombres, l \in Nombres :
              (SoloSeparadores(e, io.empresa) /\ SoloSeparadores(l, io.localidad)) =>
                  <<pdfs_path, NombreDir(e), NombreDir(l) \o <<".pdf">>>> = io.ruta_pdf

(***************************************************************************)
(* The history of a state file as the list of what was persisted (Spec).   *)
(***************************************************************************)
\* The payloads of a state file, oldest first: those of the history entries,
\* then the current one.
SissPayload(f) == <<f.url_final, f.url_tarifas_vigentes>>
SissPayloads(f) ==
    IF Loaded(f) THEN [i \in 1..Len(f.historial) |-> SissPayload(f.historial[i])]
                      \o <<SissPayload(f)>>
    ELSE <<>>
TarifasPayloads(f) ==
    IF Loaded(f) THEN [i \in 1..Len(f.historial) |-> f.historial[i].empresas]
                      \o <<f.empresas>>
    ELSE <<>>
\* No two neighbours of the list are equal under the stage's equality.
SinRepetidos(s, Igual(_, _)) == \A i \in 1..(Len(s) - 1) : ~Igual(s[i], s[i + 1])
Identicos(a, b) == a = b

\* A step that changes a state file adds the payload handed to save_json at
\* the end of the list of its payloads; no list has equal neighbours.
HistoriaPaso ==
    /\ (siss_file' # siss_file) =>
            /\ IsSiss'
            /\ SissPayloads(siss_file')
                  = Append(SissPayloads(siss_file), SissPayload(io'.datos))
            /\ SissPayload(io'.datos) = SissPayload(ret')
    /\ (tarifas_file' # tarifas_file) =>
            /\ IsTarifas'
            /\ TarifasPayloads(tarifas_file')
                  = Append(TarifasPayloads(tarifas_file), io'.datos.empresas)
            /\ io'.datos.empresas = ret'.empresas
    /\ SinRepetidos(SissPayloads(siss_file'), Identicos)
    /\ SinRepetidos(TarifasPayloads(tarifas_file'), SameBlocks)

MismaUrl(lista, i, j) == i # j /\ lista[i].url_pdf = lista[j].url_pdf

\* C36 as claimed: the cumulative list of the download registry never holds
\* two records with the same url_pdf.
C36_Original ==
    Loaded(registro_descargas) =>
        \A i, j \in DOMAIN registro_descargas.pdfs_descargados :
            ~MismaUrl(registro_descargas.pdfs_descargados, i, j)

\* C36 as amended: two records of the list with the same url_pdf were added
\* by the same run, and a run downloads no URL that the registry it loaded
\* records.
C36_UnaVezPorRegistro ==
    /\ Loaded(registro_descargas) =>
          \A i, j \in DOMAIN registro_descargas.pdfs_descargados :
              MismaUrl(registro_descargas.pdfs_descargados, i, j) =>
                  registro_descargas.pdfs_descargados[i].timestamp
                      = registro_descargas.pdfs_descargados[j].timestamp
    /\ (IsDescarga /\ ret.success /\ Loaded(io.previo)) =>
          \A i \in DOMAIN ret.pdfs_descargados :
              \A k \in DOMAIN io.previo.pdfs_descargados :
                  ret.pdfs_descargados[i].url_pdf # io.previo.pdfs_descargados[k].url_pdf

\* Two localities share a URL and one run downloaded both; a later run, on
\* a JSON with one more URL, downloads that one alone.
C36_Witness ==
    /\ IsDescarga /\ ret.success /\ Loaded(io.previo) /\ RegistroGuardado
    /\ Len(io.previo.pdfs_descargados) = 2
    /\ MismaUrl(io.previo.pdfs_descargados, 1, 2)
    /\ Len(registro_descargas.pdfs_descargados) = 3
    /\ ret.descargados = 1

(***************************************************************************)
(* Row accounting of parse_table_structure (SpecParse).                    *)
(***************************************************************************)
\* The rows of the table with at least one significant cell.
FilasConContenido(table) ==
    Len(SelectSeq(table, LAMBDA row : Significativas(row) # <<>>))

\* C37: after each processed row the rows with a significant cell are as many
\* as total_concepts plus the sections, the open one included; the returned
\* structure has that many for total_concepts plus len(sections), and its
\* total_rows is the number of rows of the table, blank ones included.
C37_Filas ==
    IsParse =>
        /\ FilasConContenido(io.table) = io.total_concepts + Len(Secciones)
        /\ io.pc = "done" =>
              /\ FilasConContenido(io.table) = ret.total_concepts + Len(ret.sections)
              /\ ret.total_rows = Len(io.table)

\* A blank row, a header and a pair: three rows, one section, one concept.
C37_Witness ==
    /\ ParseDone /\ Len(io.table) = 3
    /\ Significativas(io.table[1]) = <<>>
    /\ ret.total_rows = 3 /\ ret.total_concepts = 1 /\ Len(ret.sections) = 1
    /\ Len(ret.sections[1].data) = 1

(***************************************************************************)
(* What a failed write leaves of a state file (SpecEscritura).             *)
(***************************************************************************)
\* What load_json gives for a file: its content, or nothing.
Carga(file) == IF Loaded(file) THEN file ELSE AbsentFile
\* What the state file of the stage that ran last gives, before and after
\* the run.
ArchivoAntes == Carga(io'.previo)
ArchivoDespues == Carga(IF IsSiss' THEN siss_file' ELSE tarifas_file')

\* A run of a change-detection stage that got its payload: guardado is true
\* iff the file now holds the state with the new payload, and a run that did
\* not save left the file as it had loaded it.
EscrituraPaso ==
    ((IsSiss' \/ IsTarifas') /\ ret'.success) =>
        /\ ret'.guardado <=> (io'.save_called /\ ArchivoDespues = io'.datos)
        /\ ~ret'.guardado => ArchivoDespues = ArchivoAntes

\* C38: in a change-detection stage guardado is true iff the state file was
\* rewritten with the new payload, and after a detected change whose write
\* failed the file on disk still holds the old payload and history, so that
\* the next run meets the same change again.
C38_Escritura == [][EscrituraPaso]_vars

(***************************************************************************)
(* A file that exists and does not load (SpecIlegible).                    *)
(***************************************************************************)
\* The run that just ended met a file it could not load.
PrevioIlegible == stage # "none" /\ io.previo = CorruptFile

\* The redirect check against an unreadable state file.
IlegibleSiss ==
    LET r == verificar_siss(AbsentFile, io.extern.url_final, io.extern.url_tarifas,
                            ret.timestamp, siss_file # CorruptFile)
    IN /\ ret = r.ret
       /\ ret.success =>
             /\ ret.is_first_time
             /\ io.datos.historial = <<>>
             /\ siss_file = IF ret.guardado THEN io.datos ELSE CorruptFile

\* The tariff stage against an unreadable state file.
IlegibleTarifas ==
    LET r == monitorear_con_url(AbsentFile, ret.url_tarifas, io.extern.empresas,
                                ret.timestamp, tarifas_file # CorruptFile)
    IN /\ ret = r.ret
       /\ ret.success =>
             /\ ret.is_first_time
             /\ io.datos.historial = <<>>
             /\ tarifas_file = IF ret.guardado THEN io.datos ELSE CorruptFile

\* The download stage against an unreadable registry.
IlegibleDescarga ==
    LET r == descargar_pdfs(io.json, AbsentFile, {}, io.resultados, ret.timestamp,
                            registro_descargas # CorruptFile)
    IN /\ ret = r.ret
       /\ ret.success =>
             /\ ret.is_first_time
             /\ Len(io.intentos) = ret.total_pdfs
             /\ io.datos.pdfs_descargados = ret.pdfs_descargados
             /\ Len(io.datos.historial_descargas) = 1
             /\ registro_descargas = IF ret.registry_saved THEN io.datos ELSE CorruptFile

\* The analysis stage against an unreadable registry, with files to analyse.
IlegibleAnalisis ==
    io.loaded =>
        /\ ret.is_first_time
        /\ ret.total_pdfs = Cardinality(io.disk)
        /\ io.datos.analyzed_pdfs = ret.analyzed_pdfs
        /\ Len(io.datos.analysis_history) = 1
        /\ registro_analisis = IF ret.registry_saved THEN io.datos ELSE CorruptFile

\* C39: a run of a stage whose state or registry file exists and does not
\* load returns what it returns when the file is absent: if it succeeds it
\* reports is_first_time=true and hands save_json an empty history (the two
\* change-detection stages) or this run's records alone and one run-history
\* entry (download and analysis), and the file holds that state as soon as
\* the write succeeds, whatever it held before.
C39_Ilegible ==
    PrevioIlegible =>
        /\ IsSiss => IlegibleSiss
        /\ IsTarifas => IlegibleTarifas
        /\ IsDescarga => IlegibleDescarga
        /\ IsAnalisis => IlegibleAnalisis

\* The state file of the redirect check, with a history entry, stopped
\* loading and was rewritten at time 1 with an empty history; then the
\* download registry stopped loading and this run downloaded every listed
\* PDF again and rewrote it.
C39_Witness ==
    /\ IsDescarga /\ PrevioIlegible /\ ret.success /\ ret.is_first_time
    /\ ret.descargados = ret.total_pdfs /\ ret.registry_saved
    /\ registro_descargas = io.datos
    /\ Loaded(siss_file) /\ siss_file.timestamp = 1 /\ siss_file.historial = <<>>

(***************************************************************************)
(* is_first_time over the runs of a stage (SpecPrimera).                   *)
(***************************************************************************)
\* A run has written the file.
Escrito(file) == file.exists

\* One call of a stage: a file that was written stays written; a run that
\* says it saved leaves its file written; and a run that reaches the load
\* step with its file written reports is_first_time=false.  With a registry
\* whose cumulative list is empty that run still attempts every listed PDF
\* (download) and takes every file of the folder (analysis).
PrimeraPaso ==
    /\ Escrito(siss_file) => Escrito(siss_file')
    /\ Escrito(tarifas_file) => Escrito(tarifas_file')
    /\ Escrito(registro_descargas) => Escrito(registro_descargas')
    /\ Escrito(registro_analisis) => Escrito(registro_analisis')
    /\ (IsSiss' /\ io'.loaded) =>
            /\ ret'.guardado => Escrito(siss_file')
            /\ Escrito(siss_file) => ~ret'.is_first_time
    /\ (IsTarifas' /\ io'.loaded) =>
            /\ ret'.guardado => Escrito(tarifas_file')
            /\ Escrito(tarifas_file) => ~ret'.is_first_time
    /\ (IsDescarga' /\ io'.loaded) =>
            /\ ret'.registry_saved => Escrito(registro_descargas')
            /\ Escrito(registro_descargas) =>
                    /\ ~ret'.is_first_time
                    /\ registro_descargas.pdfs_descargados = <<>>
                            => Len(io'.intentos) = ret'.total_pdfs
    /\ (IsAnalisis' /\ io'.loaded) =>
            /\ ret'.registry_saved => Escrito(registro_analisis')
            /\ Escrito(registro_analisis) =>
                    /\ ~ret'.is_first_time
                    /\ registro_analisis.analyzed_pdfs = <<>>
                            => ret'.total_pdfs = Cardinality(pdfs_disk)

====
